---------------------------- MODULE Spec2Model ----------------------------
(***************************************************************************)
(* A model of ck3save: the binary -> text melter (src/src/melt.rs), the    *)
(* flavor selection (src/src/flavor.rs) and the envelope classification    *)
(* (src/src/file.rs).                                                      *)
(*                                                                         *)
(* The melter is a state machine over the binary token stream.  The input  *)
(* is produced one token at a time (reader.next()); a handler that reads   *)
(* ahead (key suppression, skipping of unknown keys) draws the tokens it   *)
(* consumes in the same step.  Text output is a sequence of chunks, each   *)
(* chunk a string, so that byte lengths are sums of Len.                   *)
(***************************************************************************)
EXTENDS Integers, Sequences, FiniteSets, TLC

VARIABLES
    pc,             \* position in melt(): "lead", "meta", "body", "done", "err"
    lead,           \* number of leading tokens melt() has read (0..6)
    input,          \* the tokens consumed so far, each with how it was read
    options,        \* MeltOptions: verbatim, on_failed_resolve
    version,        \* the I32 read after the leading key
    flavor,         \* "none" | "Ck3Flavor10" | "Ck3Flavor15"
    wtr,            \* the jomini TextWriter state of the current pass
    header_sink,    \* the temporary buffer of the metadata pass
    output,         \* what has been written to the caller's output
    header,         \* the melter's SaveHeader clone
    st,             \* the locals of inner_melt (flags, quoter, blocks)
    unknown_tokens, \* MeltedDocument.unknown_tokens
    error,          \* the error melt() returned, "" when none
    file,           \* the envelope input and the Ck3File built from it
    deser           \* flavor chosen by the deserializer path

meltVars == <<pc, lead, input, options, version, flavor, wtr,
              header_sink, output, header, st, unknown_tokens, error>>
vars == <<pc, lead, input, options, version, flavor, wtr,
          header_sink, output, header, st, unknown_tokens, error, file, deser>>

-----------------------------------------------------------------------------
(* Bounds of the model.                                                    *)

\* tokens read after the six leading ones in one melt, look-ahead included
MaxTokens == 6

\* longest run of tokens drawn inside a skipped container
MaxSkip == 2

-----------------------------------------------------------------------------
(* Arithmetic helpers: Rust's integer division truncates toward zero.      *)

Abs(n) == IF n < 0 THEN -n ELSE n

TruncDiv(a, b) ==
    IF (a >= 0) = (b > 0) THEN Abs(a) \div Abs(b) ELSE -(Abs(a) \div Abs(b))

TruncRem(a, b) == a - b * TruncDiv(a, b)

\* a * m / d truncated toward zero, for m, d > 0, without forming a * m
MulDiv(a, m, d) ==
    LET q == Abs(a) \div d
        r == Abs(a) % d
        v == q * m + (r * m) \div d
    IN  IF a < 0 THEN -v ELSE v

RECURSIVE Pow10(_)
Pow10(n) == IF n = 0 THEN 1 ELSE 10 * Pow10(n - 1)

RECURSIVE PadDigits(_, _)
\* the decimal digits of n >= 0, left-padded with zeros to width w
PadDigits(n, w) ==
    IF w = 0 THEN "" ELSE PadDigits(n \div 10, w - 1) \o ToString(n % 10)

RECURSIVE StripZeros(_, _)
\* the digits of the fraction n / 10^w without trailing zeros
StripZeros(n, w) ==
    IF w = 0 \/ n = 0 THEN ""
    ELSE IF n % 10 = 0 THEN StripZeros(n \div 10, w - 1)
    ELSE PadDigits(n, w)

\* format!("{:.w}", n / 10^w)
FmtFixed(n, w) ==
    (IF n < 0 THEN "-" ELSE "") \o ToString(Abs(n) \div Pow10(w))
        \o "." \o PadDigits(Abs(n) % Pow10(w), w)

\* format!("{}", n / 10^w): the shortest decimal, no trailing zeros
FmtDisplay(n, w) ==
    LET ip == Abs(n) \div Pow10(w)
        fp == Abs(n) % Pow10(w)
    IN  (IF n < 0 THEN "-" ELSE "") \o ToString(ip)
            \o (IF fp = 0 THEN "" ELSE "." \o StripZeros(fp, w))

RECURSIVE SumLen(_)
\* number of bytes of a sequence of text chunks
SumLen(chunks) ==
    IF chunks = <<>> THEN 0 ELSE Len(Head(chunks)) + SumLen(Tail(chunks))

-----------------------------------------------------------------------------
(* Binary tokens (jomini::binary::Token as matched in inner_melt).         *)

Tok(k, v, s) == [k |-> k, v |-> v, s |-> s]

OpenTok == Tok("Open", 0, "")
CloseTok == Tok("Close", 0, "")
EqualTok == Tok("Equal", 0, "")
IdTok(id) == Tok("Id", id, "")
I32Tok(n) == Tok("I32", n, "")
F64Tok(raw) == Tok("F64", raw, "")
QuotedTok(s) == Tok("Quoted", 0, s)
UnquotedTok(s) == Tok("Unquoted", 0, s)

\* The caller's token dictionary: resolve(id) is TokenNames[id] on its
\* domain and None ("") elsewhere.  1423 is the id flavor_from_tape tests.
TokenNames ==
    (10 :> "meta_data" @@ 1423 :> "save_game_version" @@ 20 :> "ironman"
        @@ 21 :> "ironman_manager" @@ 30 :> "alive_data" @@ 31 :> "gold"
        @@ 32 :> "version" @@ 33 :> "vassal_power_value" @@ 34 :> "birth"
        @@ 35 :> "seed" @@ 36 :> "ai_strategies" @@ 37 :> "settings"
        @@ 38 :> "perk" @@ 39 :> "name_list" @@ 40 :> "localization_key")

None == ""

Resolve(id) == IF id \in DOMAIN TokenNames THEN TokenNames[id] ELSE None

\* format!("__unknown_0x{:x}", x): lowercase hex without padding
HexDigit(d) == SubSeq("0123456789abcdef", d + 1, d + 1)

RECURSIVE Hex(_)
Hex(n) == IF n < 16 THEN HexDigit(n) ELSE Hex(n \div 16) \o HexDigit(n % 16)

-----------------------------------------------------------------------------
(* Flavors (src/src/flavor.rs).  A decoded f64 is kept as an exact         *)
(* fraction num / 10^scale.                                                *)

\* Ck3BinaryFlavor::float_reencoding
float_reencoding(fl) == fl = "Ck3Flavor10"

\* Ck3BinaryFlavor::unquote_token
unquote_token(fl, token) ==
    \/ token \in {"save_game_version", "portraits_version", "meta_date",
                  "color1", "color2", "color3", "color4", "color5",
                  "traits_lookup", "features", "modifiers", "traditions",
                  "name_list"}
    \/ fl = "Ck3Flavor15" /\ token = "localization_key"

\* BinaryFlavor::visit_f64 on the little-endian i64 raw.  For Ck3Flavor15
\* the epsilon added before trunc() never changes an integer-valued x.
visit_f64(fl, raw) ==
    IF fl = "Ck3Flavor15" THEN [num |-> raw, scale |-> 5]
    ELSE [num |-> raw, scale |-> 3]

\* reencode_float: f * 1000 / 32768 * 100000 truncated toward zero (the
\* epsilon only repairs float noise): num * 3125 / 1024 when f is
\* num / 10^3, num * 125 / 4096 when f is num / 10^5.
reencode_float(f) ==
    [num |-> IF f.scale = 3 THEN MulDiv(f.num, 3125, 1024)
             ELSE MulDiv(f.num, 125, 4096),
     scale |-> 5]

MeltFlavorFrom5(v) == IF v >= 5 THEN "Ck3Flavor15" ELSE "Ck3Flavor10"

\* melt()'s choice of flavor from the version
MeltFlavor(v) == IF v > 5 THEN "Ck3Flavor15" ELSE "Ck3Flavor10"

\* flavor_from_tape: the tape holds [key, container, Token(id), I32(v), ..]
flavor_from_tape(id, v) ==
    IF id = 1423 /\ v = 7 THEN "Ck3Flavor15"
    ELSE IF id = 1423 /\ v = 6 THEN "Ck3Flavor15"
    ELSE "Ck3Flavor10"

-----------------------------------------------------------------------------
(* Dates (src/src/ck3date.rs).                                             *)

NoDate == [year |-> 0, month |-> 0, day |-> 0]

DAYS_PER_MONTH == <<31, 28, 31, 30, 31, 30, 31, 31, 30, 31, 30, 31>>

RECURSIVE MonthDay(_, _)
\* month_day_from_julian, for 0 <= d <= 364, scanning the months from m
MonthDay(d, m) ==
    IF d < DAYS_PER_MONTH[m] THEN <<m, d + 1>>
    ELSE MonthDay(d - DAYS_PER_MONTH[m], m + 1)

\* month_day_from_julian: <<month, day>>, or <<0, 0>> where the code
\* reaches unreachable!()
month_day_from_julian(d) ==
    IF d \in 0..364 THEN MonthDay(d, 1) ELSE <<0, 0>>

from_i32_wide(n) ==
    LET s1 == TruncDiv(n, 24)
        days_since_jan1 == TruncRem(s1, 365)
        year == TruncDiv(s1, 365) - 5000
        md == month_day_from_julian(days_since_jan1)
    IN  IF year < 1 THEN NoDate
        ELSE [year |-> year, month |-> md[1], day |-> md[2]]

\* Ck3Date::from_i32 (the binary date decoding)
from_i32(n) ==
    LET s1 == TruncDiv(n, 24)
        days_since_jan1 == TruncRem(s1, 365)
        year == TruncDiv(s1, 365) - 5000
        md == month_day_from_julian(days_since_jan1)
    IN  IF year < 1 THEN NoDate
        ELSE [year |-> year % 65536, month |-> md[1], day |-> md[2]]

from_binary(n) == from_i32(n)

from_binary_heuristic(n) == from_i32(n)

\* Ck3Date::ck3_fmt / game_fmt
game_fmt(d) ==
    ToString(d.year) \o "." \o ToString(d.month) \o "." \o ToString(d.day)

-----------------------------------------------------------------------------
(* The text writer (jomini::TextWriter) as the melter uses it: container   *)
(* depth, the mode of the current container, and what the next write is    *)
(* expected to be.  Every operation returns the new writer and the chunks  *)
(* it wrote.                                                               *)

WtrNew == [mode |-> "Object", state |-> "Key", depth |-> <<>>, fresh |-> TRUE]

\* TextWriter::expecting_key
expecting_key(w) == w.state \in {"Key", "FirstKey"}

\* TextWriter::at_unknown_start
at_unknown_start(w) == w.mode = "Unknown" /\ w.state = "FirstKey"

\* TextWriter::depth
WtrDepth(w) == Len(w.depth)

RECURSIVE Tabs(_)
Tabs(n) == IF n = 0 THEN "" ELSE "\t" \o Tabs(n - 1)

\* the white space written in front of the next element
WtrPreamble(w) ==
    IF w.fresh THEN <<>>
    ELSE IF w.state \in {"Key", "FirstKey"} THEN <<"\n" \o Tabs(Len(w.depth))>>
    ELSE IF w.state \in {"ArrayValue", "KeyValueSeparator"} THEN <<" ">>
    ELSE <<>>

\* the container mode once an element that is not followed by an operator
\* has been written into it
ModeAfterValue(w) ==
    IF w.mode = "Unknown" /\ w.state = "KeyValueSeparator" THEN "Array"
    ELSE w.mode

\* write_unquoted / write_quoted / write_i32 / write!(..): one scalar
WtrScalar(w, text) ==
    LET mode == ModeAfterValue(w)
        next == CASE w.state \in {"Key", "FirstKey"} -> "KeyValueSeparator"
                  [] w.state = "KeyValueSeparator" ->
                        IF mode = "Object" THEN "Key" ELSE "ArrayValue"
                  [] w.state = "ObjectValue" ->
                        IF mode = "Object" THEN "Key" ELSE "ArrayValue"
                  [] OTHER -> "ArrayValue"
    IN  [w |-> [w EXCEPT !.mode = mode, !.state = next, !.fresh = FALSE],
         out |-> WtrPreamble(w) \o <<text>>]

Quote(s) == "\"" \o s \o "\""

\* write_operator(Operator::Equal); inside an array the writer enters the
\* mixed mode and accepts the key=value pair
WtrOperator(w) ==
    [w |-> [w EXCEPT !.mode = IF w.mode = "Unknown" THEN "Object" ELSE w.mode,
                     !.state = "ObjectValue", !.fresh = FALSE],
     out |-> <<"=">>]

\* write_start (kind = "Unknown") and write_object_start (kind = "Object")
WtrStart(w, kind) ==
    LET parent == IF w.mode = "Unknown" THEN "Array" ELSE w.mode
    IN  [w |-> [mode |-> kind, state |-> "FirstKey",
                depth |-> Append(w.depth, parent), fresh |-> FALSE],
         out |-> WtrPreamble(w) \o <<"{">>]

\* write_end; fails (StackEmpty) when no container is open
WtrEndOk(w) == w.depth # <<>>

WtrEnd(w) ==
    LET parent == w.depth[Len(w.depth)]
    IN  [w |-> [mode |-> parent,
                state |-> IF parent = "Object" THEN "Key" ELSE "ArrayValue",
                depth |-> SubSeq(w.depth, 1, Len(w.depth) - 1),
                fresh |-> FALSE],
         out |-> <<IF w.state = "FirstKey" THEN " }"
                   ELSE "\n" \o Tabs(Len(w.depth) - 1) \o "}">>]

-----------------------------------------------------------------------------
(* Quoter and Blocks (src/src/melt.rs).                                    *)

QuoterNew == [queued |-> "None", depth |-> <<>>]

QuoterPushKeepsQueue(q) ==
    [queued |-> q.queued,
     depth |-> Append(q.depth, IF q.queued \in {"ForceQuote", "UnquoteAll"}
                               THEN q.queued ELSE "Inactive")]

\* Quoter::push
QuoterPush(q) ==
    [queued |-> "None",
     depth |-> Append(q.depth, IF q.queued \in {"ForceQuote", "UnquoteAll"}
                               THEN q.queued ELSE "Inactive")]

\* Quoter::pop
QuoterPop(q) ==
    [q EXCEPT !.depth = IF q.depth = <<>> THEN <<>>
                        ELSE SubSeq(q.depth, 1, Len(q.depth) - 1)]

\* Quoter::take_scalar: the kind it returns (the queue is emptied)
take_scalar(q) ==
    IF q.queued # "None" THEN q.queued
    ELSE IF q.depth # <<>> THEN q.depth[Len(q.depth)]
    ELSE "Inactive"

BlocksNew ==
    [queued |-> "None", data |-> <<>>,
     in_ai_strageties |-> FALSE, in_alive_data |-> FALSE]

\* Blocks::push
BlocksPush(b) ==
    [b EXCEPT !.queued = "None",
              !.data = Append(b.data, IF b.queued = "None" THEN "Inactive"
                                      ELSE b.queued)]

\* Blocks::pop
BlocksPop(b) ==
    IF b.data = <<>> THEN b
    ELSE LET top == b.data[Len(b.data)]
             rest == SubSeq(b.data, 1, Len(b.data) - 1)
         IN  [b EXCEPT !.data = rest,
                       !.in_alive_data =
                            IF top = "Alive" THEN FALSE ELSE b.in_alive_data,
                       !.in_ai_strageties =
                            IF top = "AiStrategies" THEN FALSE
                            ELSE b.in_ai_strageties]

at_ai_strategies_any_depth(b) ==
    \E i \in 1..Len(b.data) : b.data[i] = "AiStrategies"

\* Blocks::at_ai_strategies
at_ai_strategies(b) == b.data # <<>> /\ b.data[Len(b.data)] = "AiStrategies"

\* the locals of inner_melt at its entry
Fresh ==
    [reencode_float_token |-> FALSE, known_number |-> FALSE,
     known_date |-> FALSE, quoted_buffer_enabled |-> FALSE,
     quoted_buffer |-> "", quoter |-> QuoterNew, block |-> BlocksNew]

-----------------------------------------------------------------------------
(* Output chunks and the save header.                                      *)

\* SaveHeader::header_len / the bytes SaveHeader::write emits
HEADER_LEN == 24

TextChunk(s) == [k |-> "text", s |-> s, kind |-> "", len |-> 0]

HeaderChunk(h) == [k |-> "header", s |-> "", kind |-> h.kind, len |-> h.metadata_len]

TextChunks(chunks) == [i \in 1..Len(chunks) |-> TextChunk(chunks[i])]

\* the consumed tokens with the way each was read
Tagged(toks, via) == [i \in 1..Len(toks) |-> [t |-> toks[i], via |-> via]]

\* melt(): the statements between the two inner_melt calls.  sink is the
\* header sink at the end of the metadata pass.
PatchedData(sink) == sink \o <<"\n">>

PatchedHeaderKeepKind(h, sink) ==
    [h EXCEPT !.metadata_len = SumLen(PatchedData(sink))]

PatchedHeaderNoNewline(h, sink) ==
    [h EXCEPT !.kind = "Text", !.metadata_len = SumLen(sink)]

PatchedHeader(h, sink) ==
    [h EXCEPT !.kind = "Text", !.metadata_len = SumLen(PatchedData(sink))]

-----------------------------------------------------------------------------
(* melt(): the leading tokens.                                             *)

EofTok == Tok("Eof", 0, "")

LeadAcceptsAnyId(i, t) ==
    CASE i \in {0, 3} -> t.k = "Id"
      [] i \in {1, 4} -> t.k = "Equal"
      [] i = 2 -> t.k = "Open"
      [] OTHER -> t.k = "I32"

\* what the i-th leading statement (0-based) does with token t: the writer
\* result, or an empty record sequence when it returns InvalidHeader
LeadAccepts(i, t) ==
    CASE i \in {0, 3} -> t.k = "Id" /\ Resolve(t.v) # None
      [] i \in {1, 4} -> t.k = "Equal"
      [] i = 2 -> t.k = "Open"
      [] OTHER -> t.k = "I32"

LeadWrite(i, t, w) ==
    CASE i \in {0, 3} -> WtrScalar(w, Resolve(t.v))
      [] i \in {1, 4} -> WtrOperator(w)
      [] i = 2 -> WtrStart(w, "Object")
      [] OTHER -> WtrScalar(w, ToString(t.v))

MeltLead(t) ==
    /\ pc = "lead"
    /\ input' = IF t = EofTok THEN input ELSE input \o Tagged(<<t>>, "lead")
    /\ IF t # EofTok /\ LeadAccepts(lead, t)
       THEN LET r == LeadWrite(lead, t, wtr)
            IN  /\ wtr' = r.w
                /\ header_sink' = header_sink \o r.out
                /\ lead' = lead + 1
                /\ pc' = IF lead = 5 THEN "meta" ELSE "lead"
                /\ version' = IF lead = 5 THEN t.v ELSE version
                /\ flavor' = IF lead = 5 THEN MeltFlavor(t.v) ELSE flavor
                /\ error' = error
       ELSE /\ pc' = "err"
            /\ error' = "InvalidHeader"
            /\ UNCHANGED <<wtr, header_sink, lead, version, flavor>>
    /\ UNCHANGED <<options, output, header, st, unknown_tokens, file, deser>>

-----------------------------------------------------------------------------
(* inner_melt: one iteration of the loop per token.                        *)

FlushQuoted(t) ==
    IF st.quoted_buffer_enabled
    THEN LET r == WtrScalar(wtr, Quote(st.quoted_buffer))
         IN  [w |-> r.w, out |-> r.out,
              st |-> [st EXCEPT !.quoted_buffer = "",
                                !.quoted_buffer_enabled = FALSE]]
    ELSE [w |-> wtr, out |-> <<>>, st |-> st]

\* the buffered quoted scalar is written first: unquoted when the token
\* is Equal, quoted otherwise
Flush(t) ==
    IF st.quoted_buffer_enabled
    THEN LET r == WtrScalar(wtr, IF t.k = "Equal" THEN st.quoted_buffer
                                 ELSE Quote(st.quoted_buffer))
         IN  [w |-> r.w, out |-> r.out,
              st |-> [st EXCEPT !.quoted_buffer = "",
                                !.quoted_buffer_enabled = FALSE]]
    ELSE [w |-> wtr, out |-> <<>>, st |-> st]

\* the outcome of one iteration: writer, chunks written, locals, the
\* unknown-token set, the error ("" when none) and whether inner_melt returns
Outcome(w, out, s, unk, err, ret) ==
    [w |-> w, out |-> out, st |-> s, unk |-> unk, err |-> err, ret |-> ret]

Wrote(f, r, s) == Outcome(r.w, f.out \o r.out, s, unknown_tokens, "", FALSE)

\* Token::Open
OnOpen(f) ==
    Wrote(f, WtrStart(f.w, "Unknown"),
          [f.st EXCEPT !.block = BlocksPush(f.st.block),
                       !.quoter = QuoterPush(f.st.quoter)])

\* Token::Close
OnClose(f) ==
    LET s == [f.st EXCEPT !.block = BlocksPop(f.st.block),
                          !.quoter = QuoterPop(f.st.quoter)]
    IN  IF ~WtrEndOk(f.w)
        THEN Outcome(f.w, f.out, s, unknown_tokens, "Parse", FALSE)
        ELSE LET r == WtrEnd(f.w)
             IN  Outcome(r.w, f.out \o r.out, s, unknown_tokens, "",
                         pc = "meta" /\ WtrDepth(r.w) = 0)

\* Ck3ErrorKind::InvalidDate(x)
InvalidDate(x) == "InvalidDate(" \o ToString(x) \o ")"

OnI32LenientDate(f, x) ==
    IF f.st.known_number \/ at_ai_strategies(f.st.block)
    THEN Wrote(f, WtrScalar(f.w, ToString(x)),
               [f.st EXCEPT !.known_number = FALSE])
    ELSE IF f.st.known_date
    THEN IF from_binary(x) # NoDate
         THEN Wrote(f, WtrScalar(f.w, game_fmt(from_binary(x))),
                    [f.st EXCEPT !.known_date = FALSE])
         ELSE Wrote(f, WtrScalar(f.w, ToString(x)),
                    [f.st EXCEPT !.known_date = FALSE])
    ELSE IF from_binary_heuristic(x) # NoDate
    THEN Wrote(f, WtrScalar(f.w, game_fmt(from_binary_heuristic(x))), f.st)
    ELSE Wrote(f, WtrScalar(f.w, ToString(x)), f.st)

\* Token::I32
OnI32(f, x) ==
    IF f.st.known_number \/ at_ai_strategies(f.st.block)
    THEN Wrote(f, WtrScalar(f.w, ToString(x)),
               [f.st EXCEPT !.known_number = FALSE])
    ELSE IF f.st.known_date
    THEN IF from_binary(x) # NoDate
         THEN Wrote(f, WtrScalar(f.w, game_fmt(from_binary(x))),
                    [f.st EXCEPT !.known_date = FALSE])
         ELSE IF options.on_failed_resolve # "Error"
         THEN Wrote(f, WtrScalar(f.w, ToString(x)),
                    [f.st EXCEPT !.known_date = FALSE])
         ELSE Outcome(f.w, f.out, f.st, unknown_tokens, InvalidDate(x), FALSE)
    ELSE IF from_binary_heuristic(x) # NoDate
    THEN Wrote(f, WtrScalar(f.w, game_fmt(from_binary_heuristic(x))), f.st)
    ELSE Wrote(f, WtrScalar(f.w, ToString(x)), f.st)

\* Token::Quoted
OnQuoted(f, x) ==
    LET kind == take_scalar(f.st.quoter)
        s == [f.st EXCEPT !.quoter.queued = "None"]
    IN  IF kind = "Inactive" /\ at_unknown_start(f.w)
        THEN Outcome(f.w, f.out,
                     [s EXCEPT !.quoted_buffer_enabled = TRUE,
                               !.quoted_buffer = s.quoted_buffer \o x],
                     unknown_tokens, "", FALSE)
        ELSE IF kind = "Inactive" /\ expecting_key(f.w)
        THEN Wrote(f, WtrScalar(f.w, x), s)
        ELSE IF kind \in {"Inactive", "ForceQuote", "QuoteScalar"}
        THEN Wrote(f, WtrScalar(f.w, Quote(x)), s)
        ELSE Wrote(f, WtrScalar(f.w, x), s)

\* Token::Unquoted, U32, U64, Bool, I64: the value is written as it is
OnPlain(f, text) == Wrote(f, WtrScalar(f.w, text), f.st)

OnF64KeepFlag(f, raw) ==
    IF ~f.st.reencode_float_token
    THEN LET d == visit_f64(flavor, raw)
         IN  Wrote(f, WtrScalar(f.w, FmtDisplay(d.num, d.scale)), f.st)
    ELSE LET x == reencode_float(visit_f64(flavor, raw))
         IN  Wrote(f, WtrScalar(f.w,
                        IF x.num % Pow10(x.scale) # 0
                        THEN FmtFixed(x.num, x.scale)
                        ELSE FmtDisplay(x.num, x.scale)),
                   f.st)

\* Token::F64
OnF64(f, raw) ==
    IF ~f.st.reencode_float_token
    THEN LET d == visit_f64(flavor, raw)
         IN  Wrote(f, WtrScalar(f.w, FmtDisplay(d.num, d.scale)), f.st)
    ELSE LET x == reencode_float(visit_f64(flavor, raw))
         IN  Wrote(f, WtrScalar(f.w,
                        IF x.num % Pow10(x.scale) # 0
                        THEN FmtFixed(x.num, x.scale)
                        ELSE FmtDisplay(x.num, x.scale)),
                   [f.st EXCEPT !.reencode_float_token = FALSE])

\* Token::Equal
OnEqual(f) == Wrote(f, WtrOperator(f.w), f.st)

SuppressedOnlyIronman(f, id) ==
    /\ ~options.verbatim
    /\ Resolve(id) = "ironman"
    /\ expecting_key(f.w)

\* the key suppression of a resolved identifier
Suppressed(f, id) ==
    /\ ~options.verbatim
    /\ Resolve(id) \in {"ironman", "ironman_manager"}
    /\ expecting_key(f.w)

IgnoredAtAnyPosition(f, id) ==
    /\ Resolve(id) = None
    /\ options.on_failed_resolve = "Ignore"

IgnoredKeyAnyStrategy(f, id) ==
    /\ Resolve(id) = None
    /\ expecting_key(f.w)

\* the skip of an unresolved key under Ignore
IgnoredKey(f, id) ==
    /\ Resolve(id) = None
    /\ options.on_failed_resolve = "Ignore"
    /\ expecting_key(f.w)

\* the flags an identifier arms for the value that follows it
ArmReencode(name, b) ==
    /\ \/ name \in {"vassal_power_value", "budget_war_chest",
                    "budget_short_term", "budget_long_term",
                    "budget_reserved", "damage_last_tick"}
       \/ b.in_alive_data /\ name = "gold"
    /\ float_reencoding(flavor)

QueueBlock(name) ==
    IF name = "ai_strategies" THEN "AiStrategies"
    ELSE IF name = "alive_data" THEN "Alive"
    ELSE "None"

QueueQuoteScalarOnly(name, b) ==
    IF name = "perk" /\ b.in_alive_data THEN "UnquoteAll"
    ELSE IF unquote_token(flavor, name)
              \/ name \in {"settings", "setting", "perks", "ethnicities",
                           "languages"}
    THEN "UnquoteScalar"
    ELSE "None"

QueueQuote(name, b) ==
    IF name \in {"settings", "setting", "perks", "ethnicities", "languages"}
    THEN "UnquoteAll"
    ELSE IF name = "perk" /\ b.in_alive_data THEN "UnquoteAll"
    ELSE IF unquote_token(flavor, name) THEN "UnquoteScalar"
    ELSE "None"

InsertNothing(unk, id) == unk

\* unknown_tokens.insert(x)
Insert(unk, id) == unk \cup {id}

\* Token::Id; la is what read() and skip_container() consume when the key
\* and its value are skipped
OnId(f, id, la) ==
    LET name == Resolve(id)
    IN  IF Suppressed(f, id) \/ IgnoredKey(f, id)
        THEN Outcome(f.w, f.out, f.st, unknown_tokens,
                     IF la.eof THEN "Parse" ELSE "", FALSE)
        ELSE IF name # None
        THEN Wrote(f, WtrScalar(f.w, name),
                   [f.st EXCEPT
                      !.block.queued = QueueBlock(name),
                      !.quoter.queued = QueueQuote(name, f.st.block),
                      !.known_number = name \in {"seed", "random_count"},
                      !.known_date = (name = "birth"),
                      !.reencode_float_token = ArmReencode(name, f.st.block)])
        ELSE IF options.on_failed_resolve = "Error"
        THEN Outcome(f.w, f.out, f.st, unknown_tokens, "UnknownToken", FALSE)
        ELSE Outcome(WtrScalar(f.w, "__unknown_0x" \o Hex(id)).w,
                     f.out \o WtrScalar(f.w, "__unknown_0x" \o Hex(id)).out,
                     f.st, Insert(unknown_tokens, id), "", FALSE)

-----------------------------------------------------------------------------
(* What read() and skip_container() consume after a skipped key.           *)

NoLa == [toks |-> <<>>, eof |-> FALSE]

\* the contents of a skipped container: up to MaxSkip tokens of T, or one
\* nested container
Bodies(T) ==
    UNION {[1..n -> T] : n \in 0..MaxSkip}
        \cup {<<OpenTok>> \o b \o <<CloseTok>> :
                b \in UNION {[1..n -> T] : n \in 0..(MaxSkip - 2)}}

\* next = read(); if Equal, next = read(); if Open, skip_container().
\* eof marks the input ending before the skip is complete.
LookAheads(T) ==
    {[toks |-> p, eof |-> TRUE] : p \in {<<>>, <<EqualTok>>}}
        \cup {[toks |-> <<x>>, eof |-> FALSE] : x \in T \cup {CloseTok}}
        \cup {[toks |-> <<EqualTok, x>>, eof |-> FALSE] :
                x \in T \cup {CloseTok, EqualTok}}
        \cup {[toks |-> p \o <<OpenTok>> \o b \o <<CloseTok>>, eof |-> FALSE] :
                p \in {<<>>, <<EqualTok>>}, b \in Bodies(T)}
        \cup {[toks |-> p \o <<OpenTok>> \o b, eof |-> TRUE] :
                p \in {<<>>, <<EqualTok>>}, b \in Bodies(T)}

-----------------------------------------------------------------------------
(* The steps of melt() after the leading tokens.                           *)

StepStreaming(t, la, r) ==
    /\ pc \in {"meta", "body"}
    /\ Len(input) - lead + 1 + Len(la.toks) <= MaxTokens
    /\ input' = input \o Tagged(<<t>>, "next") \o Tagged(la.toks, "skip")
    /\ unknown_tokens' = r.unk
    /\ error' = r.err
    /\ output' = output \o TextChunks(r.out)
    /\ wtr' = r.w
    /\ st' = IF pc = "meta" /\ r.err = "" /\ r.ret THEN Fresh ELSE r.st
    /\ pc' = IF r.err # "" THEN "err"
             ELSE IF pc = "meta" /\ r.ret THEN "body" ELSE pc
    /\ UNCHANGED <<header, header_sink>>
    /\ UNCHANGED <<lead, options, version, flavor, file, deser>>

\* one iteration of the loop of inner_melt on token t with outcome r; when
\* the metadata pass returns, the header is patched and written, the
\* buffered metadata follows, and the body pass starts with new locals
Step(t, la, r) ==
    /\ pc \in {"meta", "body"}
    /\ Len(input) - lead + 1 + Len(la.toks) <= MaxTokens
    /\ input' = input \o Tagged(<<t>>, "next") \o Tagged(la.toks, "skip")
    /\ unknown_tokens' = r.unk
    /\ error' = r.err
    /\ IF pc = "meta"
       THEN /\ header_sink' = IF r.err = "" /\ r.ret
                              THEN PatchedData(header_sink \o r.out)
                              ELSE header_sink \o r.out
            /\ IF r.err = "" /\ r.ret
               THEN /\ header' = PatchedHeader(header, header_sink \o r.out)
                    /\ output' = output \o <<HeaderChunk(header')>>
                                    \o TextChunks(header_sink')
                    /\ wtr' = WtrNew
                    /\ st' = Fresh
                    /\ pc' = "body"
               ELSE /\ wtr' = r.w
                    /\ st' = r.st
                    /\ pc' = IF r.err = "" THEN "meta" ELSE "err"
                    /\ UNCHANGED <<header, output>>
       ELSE /\ output' = output \o TextChunks(r.out)
            /\ wtr' = r.w
            /\ st' = r.st
            /\ pc' = IF r.err = "" THEN "body" ELSE "err"
            /\ UNCHANGED <<header, header_sink>>
    /\ UNCHANGED <<lead, options, version, flavor, file, deser>>

HandleOpen == Step(OpenTok, NoLa, OnOpen(Flush(OpenTok)))

HandleClose == Step(CloseTok, NoLa, OnClose(Flush(CloseTok)))

HandleEqual == Step(EqualTok, NoLa, OnEqual(Flush(EqualTok)))

HandleI32(x) == Step(I32Tok(x), NoLa, OnI32(Flush(I32Tok(x)), x))

HandleQuoted(x) == Step(QuotedTok(x), NoLa, OnQuoted(Flush(QuotedTok(x)), x))

HandleUnquoted(x) == Step(UnquotedTok(x), NoLa, OnPlain(Flush(UnquotedTok(x)), x))

HandleF64(raw) == Step(F64Tok(raw), NoLa, OnF64(Flush(F64Tok(raw)), raw))

\* T: the tokens a skipped value is drawn from
HandleId(id, T) ==
    \E la \in LookAheads(T) \cup {NoLa} :
        /\ (la # NoLa) = (Suppressed(Flush(IdTok(id)), id)
                            \/ IgnoredKey(Flush(IdTok(id)), id))
        /\ Step(IdTok(id), la, OnId(Flush(IdTok(id)), id, la))

MeltEofStrict ==
    /\ pc \in {"meta", "body"}
    /\ pc' = IF pc = "meta" \/ WtrDepth(wtr) > 0 THEN "err" ELSE "done"
    /\ error' = IF pc = "meta" \/ WtrDepth(wtr) > 0 THEN "Parse" ELSE error
    /\ UNCHANGED <<header_sink, header, output, wtr, st>>
    /\ UNCHANGED <<lead, input, options, version, flavor, unknown_tokens,
                   file, deser>>

\* reader.next() returns None: the running inner_melt returns Ok.  In the
\* metadata pass the header and the buffer are written and the body pass
\* ends at once.
MeltEof ==
    /\ pc \in {"meta", "body"}
    /\ pc' = "done"
    /\ IF pc = "meta"
       THEN /\ header_sink' = PatchedData(header_sink)
            /\ header' = PatchedHeader(header, header_sink)
            /\ output' = output \o <<HeaderChunk(header')>>
                            \o TextChunks(header_sink')
            /\ wtr' = WtrNew
            /\ st' = Fresh
       ELSE UNCHANGED <<header_sink, header, output, wtr, st>>
    /\ UNCHANGED <<lead, input, options, version, flavor, unknown_tokens,
                   error, file, deser>>

-----------------------------------------------------------------------------
(* Initial states.                                                         *)

NoFile == [phase |-> "none"]

\* a melter built by Ck3Melter::new_binary / new_zip on header h with the
\* options o
MeltInit(o, h) ==
    /\ pc = "lead"
    /\ lead = 0
    /\ input = <<>>
    /\ options = o
    /\ version = 0
    /\ flavor = "none"
    /\ wtr = WtrNew
    /\ header_sink = <<>>
    /\ output = <<>>
    /\ header = h
    /\ st = Fresh
    /\ unknown_tokens = {}
    /\ error = ""
    /\ file = NoFile
    /\ deser = "none"

\* MeltOptions::new
DefaultOptions == [verbatim |-> FALSE, on_failed_resolve |-> "Ignore"]

BinaryHeader == [kind |-> "Binary", metadata_len |-> 0]

\* the tokens offered to the next leading statement: the expected kind with
\* the given ids and versions, and one token of another kind
LeadDraw(ids0, ids3, versions) ==
    CASE lead = 0 -> {IdTok(i) : i \in ids0} \cup {EofTok}
      [] lead = 3 -> {IdTok(i) : i \in ids3} \cup {OpenTok}
      [] lead \in {1, 4} -> {EqualTok, CloseTok}
      [] lead = 2 -> {OpenTok, EqualTok}
      [] OTHER -> {I32Tok(v) : v \in versions} \cup {QuotedTok("6")}

\* the text chunks of a sequence of output chunks
TextOf(chunks) == [i \in 1..Len(chunks) |-> chunks[i].s]

\* the melted text behind the header
MeltedText == TextOf(Tail(output))

\* the text melt has produced so far
AllText == IF output = <<>> THEN header_sink ELSE MeltedText

\* a chunk that closes a container
IsClose(c) == Len(c) > 0 /\ SubSeq(c, Len(c), Len(c)) = "}"

RECURSIVE CloseIndex(_, _, _)
\* the index, from i on, of the chunk that closes the first container
\* opened in text, 0 when it is never closed
CloseIndex(text, i, depth) ==
    IF i > Len(text) THEN 0
    ELSE IF text[i] = "{" THEN CloseIndex(text, i + 1, depth + 1)
    ELSE IF IsClose(text[i])
    THEN IF depth = 1 THEN i ELSE CloseIndex(text, i + 1, depth - 1)
    ELSE CloseIndex(text, i + 1, depth)

-----------------------------------------------------------------------------
(* Key suppression: ironman and ironman_manager as leading key, as keys of *)
(* objects and as elements of arrays, with verbatim off and on.            *)

InitIron ==
    \E vb \in BOOLEAN :
        MeltInit([verbatim |-> vb, on_failed_resolve |-> "Ignore"], BinaryHeader)

NextIron ==
    \/ \E t \in LeadDraw({10, 9001}, {1423, 20}, {6}) : MeltLead(t)
    \/ HandleOpen
    \/ HandleClose
    \/ HandleI32(1)
    \/ \E id \in {20, 21} : HandleId(id, {I32Tok(1)})
    \/ MeltEof

SpecIron == InitIron /\ [][NextIron]_vars

RECURSIVE EndOfContainer(_, _, _)
\* the index of the token that closes the container opened at toks[i - 1],
\* 0 when there is none
EndOfContainer(toks, i, depth) ==
    IF i > Len(toks) THEN 0
    ELSE IF toks[i].k = "Open" THEN EndOfContainer(toks, i + 1, depth + 1)
    ELSE IF toks[i].k = "Close"
    THEN IF depth = 1 THEN i ELSE EndOfContainer(toks, i + 1, depth - 1)
    ELSE EndOfContainer(toks, i + 1, depth)

\* toks is an optional Equal followed by one value: a single token, or a
\* balanced container
IsEqualAndValue(toks) ==
    LET r == IF toks # <<>> /\ toks[1].k = "Equal" THEN Tail(toks) ELSE toks
    IN  /\ r # <<>>
        /\ IF r[1].k = "Open" THEN EndOfContainer(r, 2, 1) = Len(r)
           ELSE Len(r) = 1

\* the tokens a step consumed after the one it handled
SkippedBy(old, new) ==
    [i \in 1..(Len(new) - Len(old) - 1) |-> new[Len(old) + 1 + i].t]

\* C2 (amended): with verbatim off, when the main loop reads a resolved
\* ironman or ironman_manager identifier while the writer expects a key, the
\* step emits nothing and consumes the Equal and one value (a single token
\* or a balanced container), or fails with a parse error when the input
\* ends first.
C2_SuppressedInLoop ==
    [][(/\ pc \in {"meta", "body"}
        /\ ~options.verbatim
        /\ Len(input') > Len(input)
        /\ input'[Len(input) + 1].t.k = "Id"
        /\ Resolve(input'[Len(input) + 1].t.v) \in {"ironman", "ironman_manager"}
        /\ expecting_key(Flush(input'[Len(input) + 1].t).w))
       => /\ header_sink' = header_sink
          /\ output' = output
          /\ wtr' = wtr
          /\ \/ error' = "" /\ pc' = pc /\ IsEqualAndValue(SkippedBy(input, input'))
             \/ error' = "Parse" /\ pc' = "err"
                   /\ ~IsEqualAndValue(SkippedBy(input, input'))]_vars

\* a finished melt that skipped ironman with a container value in the loop
C2_Witness ==
    /\ pc = "done"
    /\ ~options.verbatim
    /\ \E i \in 7..(Len(input) - 3) :
          /\ input[i].via = "next"
          /\ Resolve(input[i].t.v) = "ironman"
          /\ input[i + 1].via = "skip" /\ input[i + 1].t.k = "Equal"
          /\ input[i + 2].via = "skip" /\ input[i + 2].t.k = "Open"
    /\ \A i \in 1..Len(MeltedText) : MeltedText[i] # "ironman"

\* C2 as stated: with verbatim off the output of a melt never contains
\* ironman= or ironman_manager=.
C2_NeverInOutput ==
    (pc = "done" /\ ~options.verbatim) =>
        \A i \in 1..(Len(MeltedText) - 1) :
            ~(MeltedText[i] \in {"ironman", "ironman_manager"}
                /\ MeltedText[i + 1] = "=")

-----------------------------------------------------------------------------
(* Unresolved identifiers under the three strategies: as leading key, as   *)
(* key, as value, and inside the value of a suppressed or skipped key.     *)

Strategies == {"Error", "Ignore", "Stringify"}

InitResolve ==
    \E s \in Strategies :
        MeltInit([verbatim |-> FALSE, on_failed_resolve |-> s], BinaryHeader)

NextResolve ==
    \/ \E t \in LeadDraw({10, 9001}, {1423}, {6}) : MeltLead(t)
    \/ HandleOpen
    \/ HandleClose
    \/ \E id \in {20, 32, 9001} : HandleId(id, {IdTok(9002)})
    \/ MeltEof

SpecResolve == InitResolve /\ [][NextResolve]_vars

\* the positions of input holding an identifier the dictionary lacks
Unresolved(via) ==
    {i \in 1..Len(input) :
        /\ input[i].via \in via
        /\ input[i].t.k = "Id"
        /\ Resolve(input[i].t.v) = None}

\* C3 (amended): under Error, melt fails with UnknownToken exactly when the
\* main loop reads an identifier outside the dictionary; an unresolvable
\* leading identifier fails with InvalidHeader; identifiers inside skipped
\* values are never resolved; a melt that ends well has resolved every
\* identifier it read outside skipped values.
C3_ErrorStrategy ==
    options.on_failed_resolve = "Error" =>
        /\ (error = "UnknownToken") = (Unresolved({"next"}) # {})
        /\ Unresolved({"lead"}) # {} => error = "InvalidHeader"
        /\ pc = "done" => Unresolved({"lead", "next"}) = {}
        /\ error \in {"", "UnknownToken", "InvalidHeader", "Parse"}

\* under Error: an unresolvable identifier inside a skipped value went by,
\* and a later one read by the loop failed the melt
C3_Witness ==
    /\ options.on_failed_resolve = "Error"
    /\ pc = "err"
    /\ error = "UnknownToken"
    /\ Unresolved({"skip"}) # {}

\* C3 as stated: under Error melt fails if and only if some identifier of
\* the input is outside the dictionary.
C3_FailsIffUnresolved ==
    (options.on_failed_resolve = "Error" /\ pc \in {"done", "err"}) =>
        ((pc = "err") = (Unresolved({"lead", "next", "skip"}) # {}))

\* the ids of the identifier tokens at the given positions of input
IdsAt(positions) == {input[i].t.v : i \in positions}

\* the ids written to the melted text as __unknown_0x<hex>
EmittedUnknown ==
    {id \in IdsAt(Unresolved({"next"})) :
        \E i \in 1..Len(AllText) : AllText[i] = "__unknown_0x" \o Hex(id)}

-----------------------------------------------------------------------------
(* Float re-encoding of gold inside alive_data, for a save of version 5.   *)

\* the raw i64 of the gold values drawn: 4359585 / 32768 = 133.04397..
GoldRaws == {4359585}

InitGold == MeltInit(DefaultOptions, BinaryHeader)

NextGold ==
    \/ \E t \in LeadDraw({10}, {1423}, {5}) : MeltLead(t)
    \/ HandleOpen
    \/ HandleClose
    \/ HandleEqual
    \/ \E id \in {30, 31} : HandleId(id, {})
    \/ \E raw \in GoldRaws : HandleF64(raw)
    \/ MeltEof

SpecGold == InitGold /\ [][NextGold]_vars

\* the tokens consumed so far
Tokens == [i \in 1..Len(input) |-> input[i].t]

\* input[i] lies inside a container opened as the value of alive_data
InsideAlive(i) ==
    \E j \in 3..(i - 1) :
        /\ Tokens[j].k = "Open"
        /\ Tokens[j - 1].k = "Equal"
        /\ Tokens[j - 2].k = "Id" /\ Resolve(Tokens[j - 2].v) = "alive_data"
        /\ EndOfContainer(Tokens, j + 1, 1) \notin j..i

\* the token just handled is an F64 that is the value of the key gold
GoldValueJustWritten ==
    /\ pc \in {"meta", "body"}
    /\ Len(input) > 8
    /\ Tokens[Len(input)] = F64Tok(4359585)
    /\ Tokens[Len(input) - 1].k = "Equal"
    /\ Tokens[Len(input) - 2].k = "Id"
    /\ Resolve(Tokens[Len(input) - 2].v) = "gold"

\* C5: under the flavor that requires re-encoding, gold inside alive_data
\* is written through the re-encoder (raw 4359585 gives 133.04397), and gold
\* outside alive_data with the plain decoding (4359.585).
C5_GoldReencodedInAlive ==
    (GoldValueJustWritten /\ float_reencoding(flavor)) =>
        AllText[Len(AllText)] =
            IF InsideAlive(Len(input) - 2) THEN "133.04397" ELSE "4359.585"

-----------------------------------------------------------------------------
(* The flavor chosen from the save version, by the melter and by the       *)
(* deserializer of the same binary body, and the f64 decoding it gives in  *)
(* the metadata pass and in the body pass.                                 *)

\* save versions drawn: a negative one, both sides of the threshold, one
\* past the versions flavor_from_tape names, and the largest i32
Versions == {-1, 5, 6, 8, 2147483647}

\* Ck3Binary::deserializer: the tape of the body melt has read holds
\* [key, container, Token(id), I32(v), ..]; Equal is not a tape token
Ck3BinaryDeserializer ==
    /\ pc \in {"done", "err"}
    /\ lead = 6
    /\ deser = "none"
    /\ deser' = flavor_from_tape(input[4].t.v, input[6].t.v)
    /\ UNCHANGED <<meltVars, file>>

InitFlavor == MeltInit(DefaultOptions, BinaryHeader)

NextFlavor ==
    \/ \E t \in LeadDraw({10}, {1423}, Versions) : MeltLead(t)
    \/ HandleClose
    \/ HandleEqual
    \/ HandleId(33, {})
    \/ \E raw \in GoldRaws : HandleF64(raw)
    \/ MeltEof
    \/ Ck3BinaryDeserializer

SpecFlavor == InitFlavor /\ [][NextFlavor]_vars

\* the token just handled is an F64, written as the last chunk
F64JustWritten ==
    /\ pc \in {"meta", "body"}
    /\ Len(input) > 6
    /\ Tokens[Len(input)] = F64Tok(4359585)

\* the F64 just handled is the value of vassal_power_value
AfterVassalPowerValue ==
    /\ Len(input) > 8
    /\ Tokens[Len(input) - 1].k = "Equal"
    /\ Tokens[Len(input) - 2] = IdTok(33)

\* no identifier that arms the re-encoding has been read
NoneArmed == \A i \in 7..Len(input) : Tokens[i].k # "Id"

\* C7: once the six leading tokens are read, the flavor is the one the I32
\* after the leading key selects, in every later state of both passes:
\* v <= 5 decodes an f64 as i64/1000 and re-encodes the designated keys,
\* v >= 6 decodes it as i64/100000 and re-encodes nothing.
C7_FlavorFromVersion ==
    lead = 6 =>
        /\ version = input[6].t.v
        /\ flavor \in {"Ck3Flavor10", "Ck3Flavor15"}
        /\ (flavor = "Ck3Flavor10") = (version <= 5)
        /\ (flavor = "Ck3Flavor15") = (version >= 6)
        /\ float_reencoding(flavor) = (version <= 5)
        /\ (F64JustWritten /\ NoneArmed) =>
              AllText[Len(AllText)] =
                  IF version <= 5 THEN "4359.585" ELSE "43.59585"
        /\ (F64JustWritten /\ AfterVassalPowerValue) =>
              AllText[Len(AllText)] =
                  IF version <= 5 THEN "133.04397" ELSE "43.59585"

\* a save of version 5 whose metadata pass wrote a plain f64 and whose
\* body pass has just written a re-encoded one
C7_Witness ==
    /\ pc = "body"
    /\ version = 5
    /\ F64JustWritten
    /\ AfterVassalPowerValue
    /\ MeltedText[Len(MeltedText)] = "133.04397"
    /\ \E i \in 1..CloseIndex(MeltedText, 1, 0) : MeltedText[i] = "4359.585"

\* C6: the deserializer and the melter select the same flavor for every
\* save version: the <=5 flavor for v <= 5, the >=6 flavor for v >= 6.
C6_SameFlavor ==
    (deser # "none" /\ input[4].t = IdTok(1423)) =>
        /\ deser = flavor
        /\ deser = IF version <= 5 THEN "Ck3Flavor10" ELSE "Ck3Flavor15"

-----------------------------------------------------------------------------
(* The envelope (src/src/file.rs): Ck3File::from_slice, encoding, meta.    *)
(* Byte ranges are [from, to) positions in the body behind the header.     *)

\* most members of a drawn archive
MaxEntries == 2

\* SaveHeader::kind
SaveHeaderKinds ==
    {"Text", "Binary", "UnifiedText", "UnifiedBinary", "SplitText",
     "SplitBinary", "CompressedText", "CompressedBinary"}

\* SaveHeaderKind::is_binary
is_binary(kind) ==
    kind \in {"Binary", "UnifiedBinary", "SplitBinary", "CompressedBinary"}

Members == {"gamestate", "meta", "other"}

\* the central directory of an archive: each member with its name and
\* whether by_index_raw can open it
Directories ==
    UNION {[1..n -> [name : Members, raw_ok : BOOLEAN]] : n \in 0..MaxEntries}

\* what zip::ZipArchive::new returns on the body: an error, or an archive
\* that starts at offset
ZipOutcomes ==
    {[result |-> e, offset |-> 0, entries |-> <<>>] :
        e \in {"InvalidArchive", "UnsupportedArchive"}}
      \cup [result : {"Ok"}, offset : {0, 3}, entries : Directories]

\* member i of an archive: a local header of one byte and one byte of
\* compressed data that inflates to two
MemberStart(zip, i) == zip.offset + 2 * i - 1

\* the body of an input: what follows the first HEADER_LEN bytes
BodyLen(z) == IF z.result = "Ok" THEN z.offset + 2 * Len(z.entries) + 1 ELSE 9

\* the inputs of from_slice: size bytes whose first line is "bad" when it
\* does not parse and else carries a kind and a metadata length; inputs of
\* 23 bytes are too short to hold a header
FileInputs ==
    {[size |-> HEADER_LEN + BodyLen(z), hdr |-> h, metadata_len |-> m,
      zip |-> z, body_len |-> BodyLen(z)] :
        h \in {"bad"} \cup SaveHeaderKinds, m \in {2, 6, 12}, z \in ZipOutcomes}
      \cup {[size |-> HEADER_LEN - 1, hdr |-> h, metadata_len |-> 2,
             zip |-> [result |-> "InvalidArchive", offset |-> 0, entries |-> <<>>],
             body_len |-> 0] : h \in {"bad", "Text"}}

NoRange == [from |-> 0, to |-> 0]

NoIndex == [data_start |-> 0, data_end |-> 0, size |-> 0]

\* SaveHeader::from_slice
SaveHeaderFromSlice(in) ==
    IF in.size < HEADER_LEN \/ in.hdr = "bad"
    THEN [ok |-> FALSE, kind |-> "", metadata_len |-> 0]
    ELSE [ok |-> TRUE, kind |-> in.hdr, metadata_len |-> in.metadata_len]

RECURSIVE GamestateIndex(_, _, _)
\* Ck3ZipFiles::new: the loop over the members from index i on; found is
\* the gamestate index so far
GamestateIndex(zip, i, found) ==
    IF i > Len(zip.entries) THEN found
    ELSE GamestateIndex(zip, i + 1,
            IF zip.entries[i].raw_ok /\ zip.entries[i].name = "gamestate"
            THEN [data_start |-> MemberStart(zip, i),
                  data_end |-> MemberStart(zip, i) + 1, size |-> 2]
            ELSE found)

ZipIsTextFlipped(h) == is_binary(h.kind)

\* from_slice: is_text of a zip save
ZipIsText(h) == ~is_binary(h.kind)

\* Ck3File::from_slice
FromSliceResult(in) ==
    LET h == SaveHeaderFromSlice(in)
        hdr == [kind |-> h.kind, metadata_len |-> h.metadata_len]
        idx == GamestateIndex(in.zip, 1, NoIndex)
        F(ph, kind, md, gs, txt, err) ==
            [phase |-> ph, input |-> in, header |-> hdr, kind |-> kind,
             metadata |-> md, gamestate |-> gs, is_text |-> txt, error |-> err,
             encoding |-> "none", meta |-> [kind |-> "none", range |-> NoRange]]
    IN  IF ~h.ok THEN F("error", "", NoRange, NoIndex, FALSE, "InvalidHeader")
        ELSE IF in.zip.result = "Ok"
        THEN IF idx = NoIndex
             THEN F("error", "", NoRange, NoIndex, FALSE, "ZipMissingEntry")
             ELSE F("file", "Zip", [from |-> 0, to |-> in.zip.offset], idx,
                    ZipIsText(hdr), "")
        ELSE IF in.zip.result = "InvalidArchive"
        THEN F("file", IF is_binary(h.kind) THEN "Binary" ELSE "Text",
               NoRange, NoIndex, FALSE, "")
        ELSE F("error", "", NoRange, NoIndex, FALSE, "ZipArchive")

FromSlice ==
    /\ file.phase = "input"
    /\ file' = FromSliceResult(file.input)
    /\ UNCHANGED <<meltVars, deser>>

\* Ck3File::encoding
Encoding ==
    /\ file.phase = "file"
    /\ file.encoding = "none"
    /\ file' = [file EXCEPT !.encoding =
                    CASE file.kind = "Text" -> "Text"
                      [] file.kind = "Binary" -> "Binary"
                      [] file.is_text -> "TextZip"
                      [] OTHER -> "BinaryZip"]
    /\ UNCHANGED <<meltVars, deser>>

\* Ck3File::meta
Meta ==
    /\ file.phase = "file"
    /\ file.meta.kind = "none"
    /\ LET len == file.header.metadata_len
           x == file.input.body_len
       IN  file' = [file EXCEPT !.meta =
             CASE file.kind = "Text" ->
                    [kind |-> "Text",
                     range |-> [from |-> 0,
                                to |-> IF len * 2 > x THEN x
                                       ELSE IF len < x THEN len ELSE x]]
               [] file.kind = "Binary" ->
                    [kind |-> "Binary",
                     range |-> [from |-> 0, to |-> IF len <= x THEN len ELSE x]]
               [] OTHER ->
                    [kind |-> IF file.is_text THEN "Text" ELSE "Binary",
                     range |-> file.metadata]]
    /\ UNCHANGED <<meltVars, deser>>

\* no melt runs while a file is classified
InitFile ==
    /\ pc = "idle"
    /\ lead = 0
    /\ input = <<>>
    /\ options = DefaultOptions
    /\ version = 0
    /\ flavor = "none"
    /\ wtr = WtrNew
    /\ header_sink = <<>>
    /\ output = <<>>
    /\ header = BinaryHeader
    /\ st = Fresh
    /\ unknown_tokens = {}
    /\ error = ""
    /\ deser = "none"
    /\ \E in \in FileInputs : file = [phase |-> "input", input |-> in]

NextFile ==
    \/ FromSlice
    \/ Encoding
    \/ Meta

SpecFile == InitFile /\ [][NextFile]_vars

\* the archive has a member of that name
HasMember(zip, name) ==
    \E i \in 1..Len(zip.entries) : zip.entries[i].name = name

\* the archive has a member of that name that by_index_raw opens
HasReadable(zip, name) ==
    \E i \in 1..Len(zip.entries) :
        zip.entries[i].name = name /\ zip.entries[i].raw_ok

\* the encoding the header's binary bit gives a save, zipped or not
ByBinaryBit(kind, zipped) ==
    IF zipped THEN (IF is_binary(kind) THEN "BinaryZip" ELSE "TextZip")
    ELSE (IF is_binary(kind) THEN "Binary" ELSE "Text")

\* the outcome of from_slice: the error, or the encoding once asked for
Classified(f) == IF f.phase = "error" THEN f.error ELSE f.encoding

\* C9 (amended): from_slice fails with InvalidHeader on a short or
\* unparsable header; else, when ZipArchive::new opens an archive, it gives
\* a zip save (TextZip or BinaryZip by the binary bit, whatever the
\* compression bit says) and fails with ZipMissingEntry exactly when no
\* member named gamestate can be opened; when ZipArchive::new reports
\* InvalidArchive it gives Text or Binary by the binary bit; any other zip
\* error fails with ZipArchive.
C9_Classification ==
    (file.phase = "error" \/ (file.phase = "file" /\ file.encoding # "none")) =>
        LET in == file.input
        IN  Classified(file) =
              IF in.size < 24 \/ in.hdr = "bad" THEN "InvalidHeader"
              ELSE IF in.zip.result = "Ok"
              THEN IF HasReadable(in.zip, "gamestate")
                   THEN ByBinaryBit(in.hdr, TRUE) ELSE "ZipMissingEntry"
              ELSE IF in.zip.result = "InvalidArchive"
              THEN ByBinaryBit(in.hdr, FALSE)
              ELSE "ZipArchive"

\* an archive behind a header whose kind is the uncompressed Text is
\* classified as a text zip
C9_Witness ==
    /\ file.phase = "file"
    /\ file.input.hdr = "Text"
    /\ file.input.zip.offset = 3
    /\ Len(file.input.zip.entries) = 2
    /\ file.encoding = "TextZip"

\* C9 as stated: InvalidHeader, else a zip save when an archive is located
\* (ZipMissingEntry exactly when it has no gamestate member), else an
\* uncompressed Text or Binary save.
C9_ThreeWay ==
    (file.phase = "error" \/ (file.phase = "file" /\ file.encoding # "none")) =>
        LET in == file.input
        IN  Classified(file) =
              IF in.size < 24 \/ in.hdr = "bad" THEN "InvalidHeader"
              ELSE IF in.zip.result = "Ok"
              THEN IF HasMember(in.zip, "gamestate")
                   THEN ByBinaryBit(in.hdr, TRUE) ELSE "ZipMissingEntry"
              ELSE ByBinaryBit(in.hdr, FALSE)

\* C10: the metadata of a zip save is the content of its meta member when
\* it has one, and else the bytes of the body in front of the archive.
C10_MetaMember ==
    (file.phase = "file" /\ file.kind = "Zip" /\ file.meta.kind # "none") =>
        LET zip == file.input.zip
        IN  IF HasReadable(zip, "meta")
            THEN \E i \in 1..Len(zip.entries) :
                    /\ zip.entries[i].name = "meta"
                    /\ zip.entries[i].raw_ok
                    /\ file.meta.range = [from |-> MemberStart(zip, i),
                                          to |-> MemberStart(zip, i) + 1]
            ELSE file.meta.range = [from |-> 0, to |-> zip.offset]

-----------------------------------------------------------------------------
(* Reading a melted save back: from_slice on the output of melt, and the   *)
(* field meta_data.version as the deserializers of both encodings see it.  *)

\* the output of a finished melt as an input of from_slice; text holds no
\* end-of-central-directory record, so ZipArchive::new reports InvalidArchive
MeltedInput ==
    [size |-> HEADER_LEN + SumLen(MeltedText), hdr |-> output[1].kind,
     metadata_len |-> output[1].len,
     zip |-> [result |-> "InvalidArchive", offset |-> 0, entries |-> <<>>],
     body_len |-> SumLen(MeltedText)]

\* Ck3File::from_slice on the melted output
FromSliceMelted ==
    /\ pc = "done"
    /\ file.phase = "none"
    /\ file' = FromSliceResult(MeltedInput)
    /\ UNCHANGED <<meltVars, deser>>

Item(k, s) == [k |-> k, s |-> s]

\* what the binary deserializer reads from a token
BinaryItem(t) ==
    CASE t.k \in {"Open", "Close", "Equal"} -> Item(t.k, "")
      [] t.k = "Id" -> Item("Scalar", Resolve(t.v))
      [] t.k \in {"Quoted", "Unquoted"} -> Item("Scalar", t.s)
      [] OTHER -> Item("Scalar", ToString(t.v))

\* white space between the elements of the text
IsBlank(c) == ~IsClose(c) /\ Len(c) > 0 /\ SubSeq(c, 1, 1) \in {"\n", " "}

IsText(c) == ~IsBlank(c)

\* what the text deserializer reads from a chunk: quotes are dropped
TextItem(c) ==
    IF c = "{" THEN Item("Open", "")
    ELSE IF IsClose(c) THEN Item("Close", "")
    ELSE IF c = "=" THEN Item("Equal", "")
    ELSE IF Len(c) > 1 /\ SubSeq(c, 1, 1) = "\""
    THEN Item("Scalar", SubSeq(c, 2, Len(c) - 1))
    ELSE Item("Scalar", c)

BinaryItems == [i \in 1..Len(input) |-> BinaryItem(input[i].t)]

TextItems ==
    LET sig == SelectSeq(MeltedText, IsText)
    IN  [i \in 1..Len(sig) |-> TextItem(sig[i])]

RECURSIVE ScanFields(_, _, _, _, _)
\* the key=value pairs of one object from items[i] on: the values of the
\* field name, where the object ends, and whether it is well formed.  top
\* is TRUE for the document itself, which ends with the input.
ScanFields(items, i, name, acc, top) ==
    LET bad == [ok |-> FALSE, vals |-> acc, end |-> 0]
    IN  IF i > Len(items) THEN [ok |-> top, vals |-> acc, end |-> i]
        ELSE IF items[i].k = "Close"
        THEN [ok |-> ~top, vals |-> acc, end |-> i]
        ELSE IF items[i].k # "Scalar" \/ i + 2 > Len(items)
                  \/ items[i + 1].k # "Equal"
        THEN bad
        ELSE IF items[i + 2].k = "Scalar"
        THEN ScanFields(items, i + 3, name,
                        IF items[i].s = name THEN Append(acc, items[i + 2].s)
                        ELSE acc, top)
        ELSE IF items[i + 2].k = "Open" /\ EndOfContainer(items, i + 3, 1) > 0
        THEN ScanFields(items, EndOfContainer(items, i + 3, 1) + 1, name,
                        IF items[i].s = name THEN Append(acc, "{}") ELSE acc,
                        top)
        ELSE bad

NoVersion == "<none>"

\* meta_data.version of a well-formed document, NoVersion when the document
\* is malformed or the field is missing, repeated or not a scalar
MetaDataVersion(items) ==
    IF Len(items) < 3 \/ items[1] # Item("Scalar", "meta_data")
          \/ items[2].k # "Equal" \/ items[3].k # "Open"
    THEN NoVersion
    ELSE LET m == ScanFields(items, 4, "version", <<>>, FALSE)
         IN  IF m.ok /\ Len(m.vals) = 1 /\ m.vals[1] # "{}"
                  /\ ScanFields(items, m.end + 1, "", <<>>, TRUE).ok
             THEN m.vals[1] ELSE NoVersion

-----------------------------------------------------------------------------
(* Melting the metadata section: meta_data={save_game_version=6 ..} with   *)
(* version keys, quoted values and nested containers, then body tokens.    *)

InitMeta == MeltInit(DefaultOptions, BinaryHeader)

NextMeta ==
    \/ \E t \in LeadDraw({10}, {1423}, {6}) : MeltLead(t)
    \/ HandleOpen
    \/ HandleClose
    \/ HandleEqual
    \/ HandleId(32, {})
    \/ HandleQuoted("1.0")
    \/ MeltEof
    \/ FromSliceMelted

SpecMeta == InitMeta /\ [][NextMeta]_vars

\* C1: once melt has written the header, its kind is Text and its
\* metadata_len is the number of bytes of the melted metadata section: the
\* leading key through the brace that closes it, plus one newline (the
\* whole buffer plus the newline when the input ends inside the section).
C1_MetadataLen ==
    output # <<>> =>
        LET j == CloseIndex(MeltedText, 1, 0)
        IN  /\ output[1].k = "header"
            /\ output[1].kind = "Text"
            /\ IF j > 0
               THEN /\ j < Len(MeltedText)
                    /\ MeltedText[j + 1] = "\n"
                    /\ output[1].len = SumLen(SubSeq(MeltedText, 1, j + 1))
               ELSE /\ MeltedText[Len(MeltedText)] = "\n"
                    /\ output[1].len = SumLen(MeltedText)

\* a melt that finished with a nested container in the metadata section
\* and text after the section
C1_Witness ==
    /\ pc = "done"
    /\ CloseIndex(MeltedText, 1, 0) > 5
    /\ Len(MeltedText) > CloseIndex(MeltedText, 1, 0) + 1
    /\ \E i \in 1..CloseIndex(MeltedText, 1, 0) - 1 : IsClose(MeltedText[i])

\* C8: when a binary save whose identifiers all resolve and whose
\* meta_data holds one version field has been melted, from_slice accepts
\* the melted output as an uncompressed text save with header kind Text,
\* and meta_data.version read from the text equals the one of the binary.
C8_RoundTrip ==
    (/\ pc = "done"
     /\ file.phase # "none"
     /\ Unresolved({"lead", "next", "skip"}) = {}
     /\ MetaDataVersion(BinaryItems) # NoVersion)
    => /\ file.phase = "file"
       /\ file.kind = "Text"
       /\ file.header.kind = "Text"
       /\ file.header.metadata_len = output[1].len
       /\ MetaDataVersion(TextItems) = MetaDataVersion(BinaryItems)

\* a melted save with version="1.0" in its metadata, read back as text
C8_Witness ==
    /\ pc = "done"
    /\ file.phase = "file"
    /\ MetaDataVersion(BinaryItems) = "1.0"
    /\ MetaDataVersion(TextItems) = "1.0"
    /\ \E i \in 1..Len(MeltedText) : MeltedText[i] = "\"1.0\""

-----------------------------------------------------------------------------
(* Quoting: the kinds an identifier queues and the containers they reach.  *)

InitQuote == MeltInit(DefaultOptions, BinaryHeader)

NextQuote ==
    \/ \E t \in LeadDraw({10}, {1423}, {5, 6}) : MeltLead(t)
    \/ HandleOpen
    \/ HandleClose
    \/ HandleEqual
    \/ HandleQuoted("a")
    \/ \E id \in {37, 40} : HandleId(id, {})

SpecQuote == InitQuote /\ [][NextQuote]_vars

\* the identifiers of the first test of inner_melt's quoting chain
UnquoteAllNames == {"settings", "setting", "perks", "ethnicities", "languages"}

\* the identifiers Ck3BinaryFlavor::unquote_token accepts under flavor fl
UnquoteScalarNames(fl) ==
    {"save_game_version", "portraits_version", "meta_date", "color1",
     "color2", "color3", "color4", "color5", "traits_lookup", "features",
     "modifiers", "traditions", "name_list"}
        \cup (IF fl = "Ck3Flavor15" THEN {"localization_key"} ELSE {})

\* Quoter: the kind of the current container (depth.last())
QuoterTop(q) == IF q.depth = <<>> THEN "Inactive" ELSE q.depth[Len(q.depth)]

\* the container opened at Tokens[j] is still open in front of position i
Encloses(j, i) ==
    /\ j < i
    /\ Tokens[j].k = "Open"
    /\ EndOfContainer(Tokens, j + 1, 1) \notin j..(i - 1)

\* position i lies directly in the container opened at Tokens[j]
DirectlyIn(j, i) ==
    /\ Encloses(j, i)
    /\ \A k \in (j + 1)..(i - 1) : ~Encloses(k, i)

\* the token in front of position j, an Equal in between left out, is an
\* identifier the main loop resolved to one of names
FollowsId(j, names) ==
    LET p == IF j > 7 /\ Tokens[j - 1].k = "Equal" THEN j - 2 ELSE j - 1
    IN  /\ p > 6
        /\ Tokens[p].k = "Id"
        /\ Resolve(Tokens[p].v) \in names

\* the last chunk of text written
LastText == AllText[Len(AllText)]

\* C11 (amended): settings, setting, perks, ethnicities and languages queue
\* UnquoteAll under both flavors and the other listed identifiers queue
\* UnquoteScalar (localization_key only under Ck3Flavor15); a container
\* opened as the value of an UnquoteAll identifier has kind UnquoteAll and a
\* Quoted scalar directly inside it is written without quotes; a container
\* opened as the value of an UnquoteScalar identifier is Inactive, and only
\* a Quoted scalar that is itself the value is written without quotes.
C11_QueuedKinds ==
    (pc \in {"meta", "body"}) =>
      LET n == Len(input) IN
      /\ \A name \in UnquoteAllNames :
            QueueQuote(name, st.block) = "UnquoteAll"
      /\ \A name \in UnquoteScalarNames(flavor) :
            QueueQuote(name, st.block) = "UnquoteScalar"
      /\ flavor = "Ck3Flavor10" =>
            QueueQuote("localization_key", st.block) = "None"
      /\ \A j \in 7..n :
            DirectlyIn(j, n + 1) =>
              /\ FollowsId(j, UnquoteAllNames) =>
                    /\ QuoterTop(st.quoter) = "UnquoteAll"
                    /\ Tokens[n].k = "Quoted" => LastText = Tokens[n].s
              /\ FollowsId(j, UnquoteScalarNames(flavor)) =>
                    QuoterTop(st.quoter) = "Inactive"
      /\ (n > 7 /\ Tokens[n].k = "Quoted"
            /\ FollowsId(n, UnquoteAllNames \cup UnquoteScalarNames(flavor)))
           => LastText = Tokens[n].s

\* a Quoted scalar written bare inside the container that is the value of
\* settings, after a nested container was closed
C11_Witness ==
    /\ pc \in {"meta", "body"}
    /\ Len(input) > 9
    /\ Tokens[Len(input)] = QuotedTok("a")
    /\ Tokens[Len(input) - 1].k = "Close"
    /\ LastText = "a"
    /\ \E j \in 7..Len(input) :
          DirectlyIn(j, Len(input) + 1) /\ FollowsId(j, {"settings"})

\* C11 as stated: every listed identifier makes the container opened next
\* an UnquoteAll container, under both flavors.
C11_AllListedUnquoteAll ==
    (pc \in {"meta", "body"}) =>
      \A j \in 7..Len(input) :
        (/\ DirectlyIn(j, Len(input) + 1)
         /\ FollowsId(j, UnquoteAllNames \cup UnquoteScalarNames("Ck3Flavor15")))
        => QuoterTop(st.quoter) = "UnquoteAll"

-----------------------------------------------------------------------------
(* The deferred quoted scalar: quoted_buffer and its flush.                *)

InitBuffer == MeltInit(DefaultOptions, BinaryHeader)

NextBuffer ==
    \/ \E t \in LeadDraw({10}, {1423}, {6}) : MeltLead(t)
    \/ HandleOpen
    \/ HandleClose
    \/ HandleEqual
    \/ \E x \in {"a", "b"} : HandleQuoted(x)
    \/ MeltEof

SpecBuffer == InitBuffer /\ [][NextBuffer]_vars

\* C12: a Quoted scalar met in Inactive mode at an unknown-start position
\* is held back and the step writes nothing for it; the next token read
\* makes the melter write the held scalar first, bare when that token is
\* Equal and quoted otherwise, in front of everything written for that
\* token; the buffer holds one scalar at most.
C12_DeferredScalar ==
    [][(pc \in {"meta", "body"} /\ Len(input') = Len(input) + 1) =>
        LET t == input'[Len(input')].t
            appended == SubSeq(AllText', Len(AllText) + 1, Len(AllText'))
            held == st.quoted_buffer_enabled
            defer == /\ t.k = "Quoted"
                     /\ ~held
                     /\ take_scalar(st.quoter) = "Inactive"
                     /\ at_unknown_start(wtr)
        IN  /\ held =>
                /\ Len(appended) >= 2
                /\ IsBlank(appended[1])
                /\ appended[2] = IF t.k = "Equal" THEN st.quoted_buffer
                                 ELSE Quote(st.quoted_buffer)
                /\ ~st'.quoted_buffer_enabled
            /\ defer =>
                /\ appended = <<>>
                /\ st'.quoted_buffer_enabled
                /\ st'.quoted_buffer = t.s
            /\ st'.quoted_buffer_enabled => defer
            /\ ~st'.quoted_buffer_enabled => st'.quoted_buffer = ""]_vars

\* a held scalar that turned out to be a key, written bare in front of the
\* operator
C12_Witness ==
    /\ pc \in {"meta", "body"}
    /\ Len(input) > 8
    /\ Tokens[Len(input)] = EqualTok
    /\ Tokens[Len(input) - 1] = QuotedTok("a")
    /\ Tokens[Len(input) - 2] = OpenTok
    /\ SubSeq(AllText, Len(AllText) - 1, Len(AllText)) = <<"a", "=">>

-----------------------------------------------------------------------------
(* The latched flags known_number, known_date and reencode_float_token.    *)

\* tokens read after the six leading ones in the streams below
MaxLatchTokens == 5

InitLatch == MeltInit(DefaultOptions, BinaryHeader)

NextLatch ==
    \/ \E t \in LeadDraw({10}, {1423}, {5}) : MeltLead(t)
    \/ /\ Len(input) < 6 + MaxLatchTokens
       /\ \/ HandleOpen
          \/ HandleClose
          \/ HandleI32(43808760)
          \/ HandleF64(32768)
          \/ \E id \in {20, 33, 34, 35, 36} : HandleId(id, {I32Tok(1)})

SpecLatch == InitLatch /\ [][NextLatch]_vars

\* the identifiers that arm reencode_float_token wherever they stand
ReencodeNames ==
    {"vassal_power_value", "budget_war_chest", "budget_short_term",
     "budget_long_term", "budget_reserved", "damage_last_tick"}

\* the three flags of a record of locals
Flags(s) == <<s.known_number, s.known_date, s.reencode_float_token>>

\* the loop writes the resolved identifier t (it is not a suppressed key)
WrittenId(t) ==
    /\ t.k = "Id"
    /\ Resolve(t.v) # None
    /\ ~Suppressed(Flush(t), t.v)

\* C13 (amended): an I32 the loop writes resets known_number, and resets
\* known_date unless the current container is the value of ai_strategies;
\* an F64 resets reencode_float_token; a resolved identifier the loop
\* writes sets the three flags from its own name; every other token, a
\* suppressed ironman key with the value skipped behind it included,
\* leaves the flags as they are, except that the Close ending the metadata
\* section clears them (the body pass starts with new locals).  With no flag set and outside
\* ai_strategies an I32 is written by the date heuristic and an F64 plain.
C13_FlagLifetime ==
    [][(pc \in {"meta", "body"} /\ Len(input') > Len(input) /\ error' = "") =>
        LET t == input'[Len(input) + 1].t
            name == Resolve(t.v)
        IN  /\ t.k = "I32" =>
                /\ ~st'.known_number
                /\ st'.known_date = (st.known_date /\ at_ai_strategies(st.block))
                /\ st'.reencode_float_token = st.reencode_float_token
                /\ LastText' =
                     IF st.known_number \/ at_ai_strategies(st.block)
                           \/ from_i32(t.v) = NoDate
                     THEN ToString(t.v) ELSE game_fmt(from_i32(t.v))
            /\ t.k = "F64" =>
                /\ ~st'.reencode_float_token
                /\ st'.known_number = st.known_number
                /\ st'.known_date = st.known_date
                /\ LastText' = IF st.reencode_float_token THEN "1" ELSE "32.768"
            /\ WrittenId(t) =>
                /\ st'.known_number = (name \in {"seed", "random_count"})
                /\ st'.known_date = (name = "birth")
                /\ (name \in ReencodeNames /\ flavor = "Ck3Flavor10")
                      => st'.reencode_float_token
                /\ st'.reencode_float_token => name \in ReencodeNames \cup {"gold"}
            /\ (t.k \notin {"I32", "F64"} /\ ~WrittenId(t)) =>
                  Flags(st') = IF pc = "meta" /\ pc' = "body"
                               THEN <<FALSE, FALSE, FALSE>> ELSE Flags(st)]_vars

\* seed = n n: the first integer is written as a number, the second one as
\* a date
C13_Witness ==
    /\ pc \in {"meta", "body"}
    /\ Len(input) = 9
    /\ Tokens[7] = IdTok(35)
    /\ Tokens[8].k = "I32"
    /\ Tokens[9] = Tokens[8]
    /\ AllText[Len(AllText) - 2] = "43808760"
    /\ LastText = "1.1.1"

\* C13 as stated: the I32 (F64) that follows resets the flags it matches,
\* and every resolved identifier ends the flags armed before it.
C13_ResetByValueOrIdentifier ==
    [][(pc \in {"meta", "body"} /\ Len(input') > Len(input) /\ error' = "") =>
        LET t == input'[Len(input) + 1].t
            name == Resolve(t.v)
        IN  /\ t.k = "I32" => ~st'.known_number /\ ~st'.known_date
            /\ t.k = "F64" => ~st'.reencode_float_token
            /\ (t.k = "Id" /\ name # None) =>
                  /\ st'.known_number => name \in {"seed", "random_count"}
                  /\ st'.known_date => name = "birth"
                  /\ st'.reencode_float_token => name \in ReencodeNames]_vars

-----------------------------------------------------------------------------
(* The date slot of birth under the three strategies.                      *)

InitDate ==
    \E s \in Strategies :
        MeltInit([verbatim |-> FALSE, on_failed_resolve |-> s], BinaryHeader)

NextDate ==
    \/ \E t \in LeadDraw({10}, {1423}, {6}) : MeltLead(t)
    \/ /\ Len(input) < 6 + MaxLatchTokens
       /\ \/ HandleOpen
          \/ HandleClose
          \/ HandleEqual
          \/ \E x \in {5, 43808760} : HandleI32(x)
          \/ \E id \in {34, 36} : HandleId(id, {})

SpecDate == InitDate /\ [][NextDate]_vars

\* birth is the last identifier among the tokens read
LastIdIsBirth ==
    \E p \in 7..Len(input) :
        /\ Tokens[p] = IdTok(34)
        /\ \A q \in (p + 1)..Len(input) : Tokens[q].k # "Id"

\* C14 (amended): known_date is armed only while birth is the last
\* identifier read.  When the loop reads an I32 that is not a valid date
\* with known_date armed and the current container is not the value of
\* ai_strategies, melt fails with InvalidDate of that integer under Error
\* and writes the integer as a number and goes on under Ignore and
\* Stringify; inside ai_strategies the integer is written as a number under
\* every strategy; InvalidDate is returned in no other situation.
C14_InvalidDate ==
    [][(pc \in {"meta", "body"} /\ Len(input') > Len(input)) =>
        LET t == input'[Len(input) + 1].t
            slot == /\ t.k = "I32"
                    /\ st.known_date
                    /\ ~st.known_number
                    /\ ~at_ai_strategies(st.block)
                    /\ from_i32(t.v) = NoDate
            strict == options.on_failed_resolve = "Error"
        IN  /\ st.known_date => LastIdIsBirth
            /\ (slot /\ strict) =>
                  /\ pc' = "err"
                  /\ error' = InvalidDate(t.v)
                  /\ AllText' = AllText
            /\ (slot /\ ~strict) =>
                  /\ pc' = pc
                  /\ error' = ""
                  /\ LastText' = ToString(t.v)
                  /\ ~st'.known_date
            /\ (t.k = "I32" /\ at_ai_strategies(st.block)) =>
                  /\ error' = ""
                  /\ LastText' = ToString(t.v)
            /\ (error' \notin {"", "Parse"}) => (slot /\ strict)]_vars

\* birth = 5 under Error: the melt has failed with InvalidDate(5)
C14_Witness ==
    /\ pc = "err"
    /\ error = InvalidDate(5)
    /\ options.on_failed_resolve = "Error"
    /\ Len(input) = 9
    /\ Tokens[7] = IdTok(34)
    /\ Tokens[8] = EqualTok
    /\ Tokens[9] = I32Tok(5)

\* the token in front of the last one, an Equal in between left out, is
\* the identifier birth
ValueOfBirth ==
    LET n == Len(input)
        p == IF n > 8 /\ Tokens[n - 1].k = "Equal" THEN n - 2 ELSE n - 1
    IN  p > 6 /\ Tokens[p] = IdTok(34)

\* C14 as stated: an invalid date as the value of birth fails the melt
\* under Error, is written as a number otherwise, and InvalidDate has no
\* other cause.
C14_OnlyValueOfBirth ==
    /\ (/\ pc \in {"meta", "body", "err"}
        /\ Len(input) > 7
        /\ Tokens[Len(input)] = I32Tok(5)
        /\ ValueOfBirth)
       => IF options.on_failed_resolve = "Error"
          THEN pc = "err" /\ error = InvalidDate(5)
          ELSE pc # "err" /\ LastText = "5"
    /\ error = InvalidDate(5) => ValueOfBirth

-----------------------------------------------------------------------------
(* Integers inside the value of ai_strategies.                             *)

InitAi == MeltInit(DefaultOptions, BinaryHeader)

NextAi ==
    \/ \E t \in LeadDraw({10, 36}, {1423}, {6}) : MeltLead(t)
    \/ /\ Len(input) < 6 + MaxLatchTokens
       /\ \/ HandleOpen
          \/ HandleClose
          \/ HandleEqual
          \/ HandleI32(43808760)
          \/ \E id \in {34, 36} : HandleId(id, {})

SpecAi == InitAi /\ [][NextAi]_vars

\* the token in front of position j, an Equal in between left out, is the
\* identifier ai_strategies, a leading one included
FollowsAiStrategies(j) ==
    LET p == IF j > 2 /\ Tokens[j - 1].k = "Equal" THEN j - 2 ELSE j - 1
    IN  p > 0 /\ Tokens[p] = IdTok(36)

\* the Open at Tokens[j] takes the block that an ai_strategies identifier
\* queued: it is the first Open behind the identifier in the same pass,
\* with no other resolved identifier in between
TakesAiStrategies(j) ==
    \E p \in 7..(j - 1) :
        /\ Tokens[p] = IdTok(36)
        /\ EndOfContainer(Tokens, 4, 1) \notin p..j
        /\ \A q \in (p + 1)..(j - 1) :
              /\ Tokens[q].k # "Open"
              /\ Tokens[q].k = "Id" => Resolve(Tokens[q].v) = None

\* the container the next token goes into is such a container
InAiStrategies ==
    \E j \in 7..Len(input) :
        DirectlyIn(j, Len(input) + 1) /\ TakesAiStrategies(j)

\* C15 (amended): while the current container was opened by the main loop
\* as the value of ai_strategies (more exactly: by the first Open behind
\* the identifier), every I32 is written as a plain integer, whatever its
\* magnitude and whatever latch is pending; in every other container (one
\* nested in it, the one around it once it is closed, the container
\* opened by the leading tokens) an I32 is handled by the latches and the
\* date heuristic.
C15_AiStrategiesIntegers ==
    [][(pc \in {"meta", "body"} /\ Len(input') > Len(input)) =>
        LET t == input'[Len(input) + 1].t
        IN  /\ at_ai_strategies(st.block) = InAiStrategies
            /\ \A j \in 7..Len(input) :
                  (DirectlyIn(j, Len(input) + 1)
                      /\ FollowsId(j, {"ai_strategies"}))
                    => InAiStrategies
            /\ (t.k = "I32" /\ InAiStrategies) =>
                  /\ error' = ""
                  /\ LastText' = ToString(t.v)
            /\ (t.k = "I32" /\ ~InAiStrategies /\ ~st.known_number) =>
                  /\ error' = ""
                  /\ LastText' = game_fmt(from_i32(t.v))]_vars

\* ai_strategies={ birth <n>: the integer is written as a number while the
\* date latch of birth is pending
C15_Witness ==
    /\ pc \in {"meta", "body"}
    /\ Len(input) = 11
    /\ Tokens[7] = IdTok(36)
    /\ Tokens[8] = EqualTok
    /\ Tokens[9] = OpenTok
    /\ Tokens[10] = IdTok(34)
    /\ Tokens[11] = I32Tok(43808760)
    /\ LastText = "43808760"
    /\ st.known_date

\* C15 as stated: in every container that is the value of ai_strategies an
\* I32 is written as a plain integer.
C15_EveryAiStrategiesValue ==
    (/\ pc \in {"meta", "body"}
     /\ Len(input) > 6
     /\ Tokens[Len(input)].k = "I32"
     /\ \E j \in 1..(Len(input) - 1) :
           DirectlyIn(j, Len(input)) /\ FollowsAiStrategies(j))
    => LastText = ToString(Tokens[Len(input)].v)

-----------------------------------------------------------------------------
(* Unresolved identifiers under Ignore and Stringify.                      *)

\* C16 (amended): for an unresolved identifier the main loop reads: under
\* Ignore with the writer expecting a key, the step writes nothing, leaves
\* the writer alone and consumes the Equal and one value (a token or a
\* balanced container) behind the key, failing when the input ends first;
\* under Ignore at a value position and under Stringify the step writes
\* __unknown_0x<lowercase hex of the id>, consumes nothing else and the
\* melt goes on.
C16_UnresolvedInLoop ==
    [][(/\ pc \in {"meta", "body"}
        /\ options.on_failed_resolve # "Error"
        /\ Len(input') > Len(input)
        /\ input'[Len(input) + 1].t = IdTok(9001)) =>
        IF options.on_failed_resolve = "Ignore" /\ expecting_key(wtr)
        THEN /\ AllText' = AllText
             /\ wtr' = wtr
             /\ \/ /\ error' = "" /\ pc' = pc
                   /\ IsEqualAndValue(SkippedBy(input, input'))
                \/ /\ error' = "Parse" /\ pc' = "err"
                   /\ ~IsEqualAndValue(SkippedBy(input, input'))
        ELSE /\ Len(AllText') > Len(AllText)
             /\ LastText' = "__unknown_0x2329"
             /\ Hex(43981) = "abcd"
             /\ Len(input') = Len(input) + 1
             /\ error' = ""
             /\ pc' = pc]_vars

\* under Ignore an unresolved key went by with a container as its value,
\* and an unresolved value was written as a placeholder
C16_Witness ==
    /\ options.on_failed_resolve = "Ignore"
    /\ pc \in {"meta", "body"}
    /\ LastText = "__unknown_0x2329"
    /\ \E i \in Unresolved({"next"}) :
          /\ i + 2 < Len(input)
          /\ input[i + 1].via = "skip"
          /\ input[i + 1].t.k = "Open"

\* C16 as stated: under Stringify every unresolved identifier of the
\* input is written as its placeholder and the melt goes on.
C16_EveryUnresolvedWritten ==
    options.on_failed_resolve = "Stringify" =>
        \A i \in Unresolved({"lead", "next", "skip"}) :
            /\ error # "InvalidHeader"
            /\ \E k \in 1..Len(AllText) :
                  AllText[k] = "__unknown_0x" \o Hex(input[i].t.v)

-----------------------------------------------------------------------------
(* The leading tokens of the body.                                         *)

\* the kind melt() asks of the i-th token of the body, i in 1..6
LeadPattern(i, t) ==
    CASE i \in {1, 4} -> t.k = "Id" /\ t.v \in DOMAIN TokenNames
      [] i \in {2, 5} -> t.k = "Equal"
      [] i = 3 -> t.k = "Open"
      [] OTHER -> t.k = "I32"

\* C17 (amended): melt() reads six leading tokens, Id Equal Open Id Equal
\* I32(v) with both identifiers in the dictionary, whichever identifiers
\* they are, and writes them through; a body whose next leading token is
\* of another kind, is an identifier the dictionary lacks, or is missing
\* is rejected with InvalidHeader, and nothing has then been written to
\* the caller's output.
C17_LeadingTokens ==
    LET n == IF Len(input) < 6 THEN Len(input) ELSE 6
    IN  /\ \A i \in 1..n : input[i].via = "lead"
        /\ \A i \in 1..lead : LeadPattern(i, Tokens[i])
        /\ error = "InvalidHeader" =>
              /\ pc = "err"
              /\ lead < 6
              /\ output = <<>>
              /\ \/ Len(input) = lead
                 \/ /\ Len(input) = lead + 1
                    /\ ~LeadPattern(lead + 1, Tokens[lead + 1])
        /\ error # "InvalidHeader" => lead = n
        /\ lead = 6 =>
              /\ version = Tokens[6].v
              /\ SubSeq(AllText, 1, 7)
                    = <<TokenNames[Tokens[1].v], "=", "{", "\n\t",
                        TokenNames[Tokens[4].v], "=", ToString(version)>>

\* a body rejected at its fourth token: three tokens went to the buffer,
\* none to the output
C17_Witness ==
    /\ pc = "err"
    /\ error = "InvalidHeader"
    /\ lead = 3
    /\ Len(input) = 4
    /\ header_sink = <<"meta_data", "=", "{">>
    /\ output = <<>>

\* C17 as stated: a body is accepted only when its leading identifiers are
\* the expected ones.
C17_WrongIdentifierRejected ==
    lead = 6 =>
        /\ TokenNames[Tokens[1].v] \in {"meta_data", "save_game_version"}
        /\ TokenNames[Tokens[4].v] = "save_game_version"

-----------------------------------------------------------------------------
(* The deserializer facade and the error conversions.                      *)

\* the errors of jomini the conversions take: a deserialization error
\* (a message, or an unresolved token) or an error of another kind
JominiErrors ==
    {[kind |-> "Deserialize", de |-> "UnknownToken", token_id |-> id] :
        id \in {9001, 43981}}
      \cup {[kind |-> "Deserialize", de |-> d, token_id |-> 0] :
                d \in {"Message", "Unsupported"}}
      \cup {[kind |-> k, de |-> "", token_id |-> 0] :
                k \in {"Eof", "InvalidSyntax", "Io"}}

\* what the underlying deserializer returns
JominiOutcomes == {[ok |-> TRUE]} \cup {[ok |-> FALSE, err |-> e] : e \in JominiErrors}

\* a Ck3ErrorKind built from the jomini error e
Kind(k, token_id, msg, e) ==
    [kind |-> k, token_id |-> token_id, msg |-> msg, source |-> e]

NoSource == [kind |-> "", de |-> "", token_id |-> 0]

\* the methods of serde's Deserializer the macro forwards
ForwardedMethods ==
    {"deserialize_any", "deserialize_bool", "deserialize_i8",
     "deserialize_i16", "deserialize_i32", "deserialize_i64",
     "deserialize_u8", "deserialize_u16", "deserialize_u32",
     "deserialize_u64", "deserialize_f32", "deserialize_f64",
     "deserialize_char", "deserialize_str", "deserialize_string",
     "deserialize_bytes", "deserialize_byte_buf", "deserialize_option",
     "deserialize_unit", "deserialize_seq", "deserialize_map",
     "deserialize_identifier", "deserialize_ignored_any"}

\* the methods written out because they take more than the visitor
NamedMethods ==
    {"deserialize_unit_struct", "deserialize_newtype_struct",
     "deserialize_tuple", "deserialize_tuple_struct", "deserialize_struct",
     "deserialize_enum"}

translate_deserialize_error_lenient(e) ==
    IF e.kind = "Deserialize" /\ e.de = "UnknownToken"
    THEN Kind("UnknownToken", e.token_id, "", NoSource)
    ELSE Kind("Deserialize", 0, "", e)

translate_deserialize_error(e) ==
    IF e.kind = "Deserialize"
    THEN IF e.de = "UnknownToken"
         THEN Kind("UnknownToken", e.token_id, "", NoSource)
         ELSE Kind("Deserialize", 0, "", e)
    ELSE Kind("DeserializeImpl", 0, "unexpected error", NoSource)

\* Ck3BinaryDeserializer::deserialize: the closure given to map_err
BinaryDeserializeError(e) ==
    IF e.kind = "Deserialize"
    THEN IF e.de = "UnknownToken"
         THEN Kind("UnknownToken", e.token_id, "", NoSource)
         ELSE Kind("Deserialize", 0, "", e)
    ELSE Kind("Deserialize", 0, "", e)

\* impl From<jomini::Error> for Ck3Error
FromJominiError(e) ==
    IF e.kind = "Deserialize"
    THEN IF e.de = "UnknownToken"
         THEN Kind("UnknownToken", e.token_id, "", NoSource)
         ELSE Kind("Deserialize", 0, "", e)
    ELSE Kind("Parse", 0, "", e)

\* the facade after a call: what was called, which method of which
\* underlying deserializer it drove, what that returned and what the
\* caller got
Called(call, o, r) ==
    deser' = [deser EXCEPT
                !.call = call,
                !.driven = <<[target |-> deser.kind, method |-> call]>>,
                !.under = o,
                !.result = IF o.ok THEN [ok |-> TRUE]
                           ELSE [ok |-> FALSE, err |-> r]]

\* Ck3Deserializer::deserialize
Deserialize(o) ==
    /\ deser.call = "none"
    /\ Called("deserialize", o,
              IF o.ok THEN NoSource
              ELSE IF deser.kind = "Text"
                   THEN Kind("Deserialize", 0, "", o.err)
                   ELSE BinaryDeserializeError(o.err))
    /\ UNCHANGED <<meltVars, file>>

ForwardOnlyStruct(m, o) ==
    /\ deser.call = "none"
    /\ IF m = "deserialize_struct"
       THEN Called(m, o, IF o.ok THEN NoSource
                         ELSE translate_deserialize_error(o.err))
       ELSE deser' = [deser EXCEPT
                !.call = m,
                !.result = [ok |-> FALSE,
                            err |-> Kind("DeserializeImpl", 0,
                                         "only struct at top level",
                                         NoSource)]]
    /\ UNCHANGED <<meltVars, file>>

\* a method of impl Deserializer for Ck3Deserializer: both arms call the
\* method of the same name and translate its error
Forward(m, o) ==
    /\ deser.call = "none"
    /\ Called(m, o, IF o.ok THEN NoSource
                    ELSE translate_deserialize_error(o.err))
    /\ UNCHANGED <<meltVars, file>>

\* the conversion `?` applies to a jomini error
ConvertFrom(e) ==
    /\ deser.call = "none"
    /\ deser' = [deser EXCEPT
                    !.call = "from",
                    !.under = [ok |-> FALSE, err |-> e],
                    !.result = [ok |-> FALSE, err |-> FromJominiError(e)]]
    /\ UNCHANGED <<meltVars, file>>

InitFacade ==
    /\ pc = "idle"
    /\ lead = 0
    /\ input = <<>>
    /\ options = DefaultOptions
    /\ version = 0
    /\ flavor = "none"
    /\ wtr = WtrNew
    /\ header_sink = <<>>
    /\ output = <<>>
    /\ header = BinaryHeader
    /\ st = Fresh
    /\ unknown_tokens = {}
    /\ error = ""
    /\ file = NoFile
    /\ \E k \in {"Text", "Binary"} :
          deser = [kind |-> k, call |-> "none", driven |-> <<>>,
                   under |-> [ok |-> TRUE], result |-> [ok |-> TRUE]]

NextFacade ==
    \/ \E o \in JominiOutcomes : Deserialize(o)
    \/ \E m \in ForwardedMethods \cup NamedMethods, o \in JominiOutcomes :
          Forward(m, o)
    \/ \E e \in JominiErrors : ConvertFrom(e)

SpecFacade == InitFacade /\ [][NextFacade]_vars

\* the call returned an error made from the jomini error e
Failed(e) == ~deser.under.ok /\ deser.under.err = e

\* C18 (amended): at the three places an unresolved token becomes
\* UnknownToken with the same id and any other deserialization error
\* becomes Deserialize, except that deserialize() on a text save wraps
\* every error as Deserialize; a jomini error of another kind, an I/O
\* failure included, becomes Deserialize in deserialize(),
\* DeserializeImpl("unexpected error") in the serde methods and Parse in
\* From<jomini::Error>, and never Io.
C18_Classification ==
    \A e \in JominiErrors :
        (deser.call # "none" /\ Failed(e)) =>
            LET r == deser.result.err
                textEntry == deser.call = "deserialize" /\ deser.kind = "Text"
            IN  /\ ~deser.result.ok
                /\ r.kind # "Io"
                /\ textEntry => r.kind = "Deserialize" /\ r.source = e
                /\ (~textEntry /\ e.de = "UnknownToken") =>
                      r.kind = "UnknownToken" /\ r.token_id = e.token_id
                /\ (e.kind = "Deserialize" /\ e.de # "UnknownToken") =>
                      r.kind = "Deserialize" /\ r.source = e
                /\ e.kind # "Deserialize" =>
                      CASE deser.call = "deserialize" ->
                              r.kind = "Deserialize" /\ r.source = e
                        [] deser.call = "from" ->
                              r.kind = "Parse" /\ r.source = e
                        [] OTHER ->
                              r.kind = "DeserializeImpl"
                                /\ r.msg = "unexpected error"

\* a serde method of the binary facade whose deserializer failed with an
\* I/O error
C18_Witness ==
    /\ deser.call = "deserialize_struct"
    /\ deser.kind = "Binary"
    /\ ~deser.under.ok
    /\ deser.under.err.kind = "Io"
    /\ deser.result.err.kind = "DeserializeImpl"

\* C18 as stated: one classification at the three places, with Io for an
\* I/O failure.
C18_SameEverywhere ==
    \A e \in JominiErrors :
        (deser.call # "none" /\ Failed(e)) =>
            deser.result.err.kind =
                CASE e.de = "UnknownToken" -> "UnknownToken"
                  [] e.kind = "Deserialize" -> "Deserialize"
                  [] e.kind = "Io" -> "Io"
                  [] OTHER -> deser.result.err.kind

\* C19 (amended): every method of the facade's Deserializer, not only
\* deserialize_struct, calls the method of the same name of the underlying
\* text or binary deserializer once and returns what it returns, errors
\* translated; none answers "only struct at top level".
C19_EveryMethodForwards ==
    deser.call \in ForwardedMethods \cup NamedMethods =>
        /\ deser.driven = <<[target |-> deser.kind, method |-> deser.call]>>
        /\ deser.result.ok = deser.under.ok
        /\ ~deser.result.ok =>
              deser.result.err.msg # "only struct at top level"

\* deserialize_map went through to the text deserializer and succeeded
C19_Witness ==
    /\ deser.call = "deserialize_map"
    /\ deser.kind = "Text"
    /\ deser.driven = <<[target |-> "Text", method |-> "deserialize_map"]>>
    /\ deser.under.ok
    /\ deser.result.ok

\* C19 as stated: only deserialize_struct drives the underlying
\* deserializer.
C19_OnlyStructDescends ==
    (deser.call \in (ForwardedMethods \cup NamedMethods)
                        \ {"deserialize_struct"}) =>
        /\ deser.driven = <<>>
        /\ ~deser.result.ok
        /\ deser.result.err.kind = "DeserializeImpl"
        /\ deser.result.err.msg = "only struct at top level"

-----------------------------------------------------------------------------
(* The gamestate member of a zip save: Ck3ZipFile::read_to_end, which      *)
(* parse() calls, and Ck3ZipFile::reader, which the melter reads from.     *)
(* Bytes are small numbers; the raw deflate stream of the bytes d is       *)
(* modelled as the byte 2 followed by d.                                   *)

\* longest content of a drawn member
MaxData == 3

\* the byte strings of length 1..n over the bytes 1 and 2
RECURSIVE ByteStrings(_)
ByteStrings(n) ==
    IF n = 0 THEN {}
    ELSE ByteStrings(n - 1) \cup [1..n -> {1, 2}]

\* the bytes the archive holds for a member with the content d
Compressed(method, d) ==
    CASE method = "Stored" -> d
      [] method = "Deflate" -> <<2>> \o d
      [] OTHER -> <<0>> \o d

\* a member as the central directory records it and as
\* Ck3ZipFiles::retrieve_file slices it: size is the uncompressed size
ZipMembers ==
    {[method |-> m, data |-> d, raw |-> Compressed(m, d), size |-> Len(d)] :
        m \in {"Stored", "Deflate", "Bzip2"}, d \in ByteStrings(MaxData)}

\* inflating a byte string: the content of a deflate stream, or bad data
Inflate(raw) ==
    IF raw # <<>> /\ raw[1] = 2
    THEN [ok |-> TRUE, data |-> Tail(raw)]
    ELSE [ok |-> FALSE, data |-> <<>>]

\* deflate::inflate_exact(raw, body): fill a buffer of size bytes
inflate_exact(raw, size) ==
    LET r == Inflate(raw)
    IN  IF ~r.ok THEN [error |-> "ZipBadData", data |-> <<>>]
        ELSE IF Len(r.data) < size
        THEN [error |-> "ZipEarlyEof", data |-> r.data]
        ELSE [error |-> "", data |-> SubSeq(r.data, 1, size)]

\* deflate::DeflateReader::new(raw, method): the bytes the reader yields
\* and whether reading them ends in an error
DeflateReader(raw, method) ==
    IF method = "Deflate"
    THEN LET r == Inflate(raw)
         IN  [data |-> r.data, fails |-> ~r.ok]
    ELSE [data |-> raw, fails |-> FALSE]

\* Ck3ZipFile::reader
ZipFileReader(m) == DeflateReader(m.raw, "Deflate")

\* Ck3ZipFile::read_to_end into an empty sink
ReadToEnd ==
    /\ file.phase = "member"
    /\ LET r == inflate_exact(file.member.raw, file.member.size)
       IN  file' = [file EXCEPT
                      !.phase = IF r.error = "" THEN "inflated" ELSE "error",
                      !.sink = IF r.error = "" THEN r.data ELSE <<>>,
                      !.error = r.error]
    /\ UNCHANGED <<meltVars, deser>>

\* Ck3ZipFile::reader: the melter opens a reader on the member
Reader ==
    /\ file.phase = "member"
    /\ file' = [file EXCEPT !.phase = "reading"]
    /\ UNCHANGED <<meltVars, deser>>

\* one read of a byte from the reader
Read ==
    /\ file.phase = "reading"
    /\ LET r == ZipFileReader(file.member)
           n == Len(file.sink)
       IN  file' =
             IF n < Len(r.data)
             THEN [file EXCEPT !.sink = Append(file.sink, r.data[n + 1])]
             ELSE IF r.fails
             THEN [file EXCEPT !.phase = "error", !.error = "read"]
             ELSE [file EXCEPT !.phase = "eof"]
    /\ UNCHANGED <<meltVars, deser>>

InitZip ==
    /\ pc = "idle"
    /\ lead = 0
    /\ input = <<>>
    /\ options = DefaultOptions
    /\ version = 0
    /\ flavor = "none"
    /\ wtr = WtrNew
    /\ header_sink = <<>>
    /\ output = <<>>
    /\ header = BinaryHeader
    /\ st = Fresh
    /\ unknown_tokens = {}
    /\ error = ""
    /\ deser = "none"
    /\ \E m \in ZipMembers :
          file = [phase |-> "member", member |-> m, sink |-> <<>>,
                  error |-> ""]

NextZip ==
    \/ ReadToEnd
    \/ Reader
    \/ Read

SpecZip == InitZip /\ [][NextZip]_vars

\* C20: a gamestate member is decoded by its recorded method, when parsing
\* and when melting: Stored bytes come back verbatim, Deflate bytes
\* inflated, and any other method fails with UnknownCompression.
C20_ByMethod ==
    file.phase \in {"inflated", "eof", "error"} =>
        CASE file.member.method = "Stored" ->
                file.phase # "error" /\ file.sink = file.member.raw
          [] file.member.method = "Deflate" ->
                file.phase # "error" /\ file.sink = file.member.data
          [] OTHER ->
                file.phase = "error" /\ file.error = "UnknownCompression"

-----------------------------------------------------------------------------
(* The extractor (src/src/extraction.rs) and the sizes of zip entries.     *)
(* A save is the data behind the save id line: the bytes in front of the   *)
(* archive and what ZipArchive::new says.  Entry sizes are in MiB.         *)

\* the size in MiB above which melt_in_memory refuses an entry
ZipSizeLimit == 200

\* the first bytes of the data in front of the archive, at most four
PreZipBytes == UNION {[1..n -> {0, 1}] : n \in 0..4}

\* a gamestate entry: the uncompressed size its header declares and the
\* size its data inflates to
ZipEntries ==
    {[size |-> s, actual |-> a] :
        s \in {100, 200, 201, 2048, 2049}, a \in {100, 201, 2049}}

\* what the extractor is given
ExtractInputs ==
    {[pre |-> p, zip |-> z, entry |-> e] :
        p \in PreZipBytes,
        z \in {"Ok"},
        e \in ZipEntries}
      \cup {[pre |-> p, zip |-> z, entry |-> [size |-> 0, actual |-> 0]] :
              p \in PreZipBytes, z \in {"InvalidArchive", "Io"}}

\* sniff_is_binary
sniff_is_binary(data) ==
    Len(data) >= 4 /\ SubSeq(data, 3, 4) = <<1, 0>>

\* detect_encoding
detect_encoding(in) ==
    CASE in.zip = "Ok" -> "Zip"
      [] in.zip = "InvalidArchive" -> "Plain"
      [] OTHER -> "ZipCentralDirectory"

\* the save after the operation op
Extracted(op, in, enc, err, alloc) ==
    [phase |-> IF err = "" THEN "extracted" ELSE "error", op |-> op,
     input |-> in,
     encoding |-> enc, error |-> err, allocated |-> alloc]

HeaderEncodingByZipOnly(in) ==
    IF detect_encoding(in) = "Plain" THEN "Binary"
    ELSE IF sniff_is_binary(in.pre) THEN "BinaryZip" ELSE "TextZip"

\* extract_header_with_tokens_as: the encoding it reports
HeaderEncoding(in) ==
    IF sniff_is_binary(in.pre)
    THEN IF detect_encoding(in) = "Zip" THEN "BinaryZip" ELSE "Binary"
    ELSE "TextZip"

\* extract_header_with_tokens_as; ok is whether the deserializer succeeds
ExtractHeader(ok) ==
    /\ file.phase = "save"
    /\ LET in == file.input
       IN  file' =
             IF detect_encoding(in) = "ZipCentralDirectory"
             THEN Extracted("extract_header", in, "", "ZipCentralDirectory", 0)
             ELSE IF ~ok THEN Extracted("extract_header", in, "", "Deserialize", 0)
             ELSE Extracted("extract_header", in, HeaderEncoding(in), "", 0)
    /\ UNCHANGED <<meltVars, deser>>

\* melt_in_memory on the gamestate entry: the buffer reserves the declared
\* size and read_to_end grows it to what the entry inflates to
MeltInMemory ==
    /\ file.phase = "save"
    /\ file.input.zip = "Ok"
    /\ LET in == file.input
           e == in.entry
       IN  file' =
             IF e.size > ZipSizeLimit
             THEN Extracted("melt_in_memory", in, "", "ZipSize", 0)
             ELSE Extracted("melt_in_memory", in, "", "",
                            IF e.actual > e.size THEN e.actual ELSE e.size)
    /\ UNCHANGED <<meltVars, deser>>

\* Ck3File::parse on a zip save: Ck3ZipFile::read_to_end resizes the sink
\* to the declared size and inflates into it
ParseZip ==
    /\ file.phase = "save"
    /\ file.input.zip = "Ok"
    /\ LET in == file.input
           e == in.entry
       IN  file' =
             IF e.actual < e.size
             THEN Extracted("parse", in, "", "ZipEarlyEof", e.size)
             ELSE Extracted("parse", in, "", "", e.size)
    /\ UNCHANGED <<meltVars, deser>>

InitExtract ==
    /\ pc = "idle"
    /\ lead = 0
    /\ input = <<>>
    /\ options = DefaultOptions
    /\ version = 0
    /\ flavor = "none"
    /\ wtr = WtrNew
    /\ header_sink = <<>>
    /\ output = <<>>
    /\ header = BinaryHeader
    /\ st = Fresh
    /\ unknown_tokens = {}
    /\ error = ""
    /\ deser = "none"
    /\ \E in \in ExtractInputs : file = [phase |-> "save", input |-> in]

NextExtract ==
    \/ \E ok \in BOOLEAN : ExtractHeader(ok)
    \/ MeltInMemory
    \/ ParseZip

SpecExtract == InitExtract /\ [][NextExtract]_vars

\* C21: an entry is refused exactly when it declares more than 2 GiB
\* (2048 MiB), on every extraction path, and no path allocates more than
\* the declared size.
C21_SizeLimit ==
    (file.phase \in {"extracted", "error"}
        /\ file.op \in {"melt_in_memory", "parse"}) =>
        /\ file.error \in {"ZipSize", "UnknownSize"}
              <=> file.input.entry.size > 2048
        /\ file.allocated <= file.input.entry.size


\* the third and fourth byte in front of the archive are 01 00
BinaryEquals(in) ==
    Len(in.pre) >= 4 /\ in.pre[3] = 1 /\ in.pre[4] = 0

-----------------------------------------------------------------------------
(* The calendar (src/src/ck3date.rs) as pure functions: input holds the    *)
(* name of the function applied and its arguments, output what it          *)
(* returned.                                                               *)

\* binary dates: the hour h of the day d of the year y, and the ends of
\* the range of i32
BinaryDates ==
    {((y + 5000) * 365 + d) * 24 + h :
        y \in {-5000, 0, 1, 2, 1436, 65535, 65536, 65537},
        d \in {0, 30, 31, 58, 59, 333, 334, 364},
        h \in {0, 23}}
      \cup {-2147483647, -8760, -1, 2147483647}

\* a call of one of the functions on the arguments args
Apply(f, args, result) ==
    /\ pc = "idle"
    /\ pc' = "done"
    /\ input' = <<f>> \o args
    /\ output' = <<result>>
    /\ UNCHANGED <<lead, options, version, flavor, wtr, header_sink, header,
                   st, unknown_tokens, error, file, deser>>

\* Ck3Date::from_i32 on n
FromI32(n) == Apply("from_i32", <<n>>, from_i32(n))

InitCalendar ==
    /\ pc = "idle"
    /\ lead = 0
    /\ input = <<>>
    /\ options = DefaultOptions
    /\ version = 0
    /\ flavor = "none"
    /\ wtr = WtrNew
    /\ header_sink = <<>>
    /\ output = <<>>
    /\ header = BinaryHeader
    /\ st = Fresh
    /\ unknown_tokens = {}
    /\ error = ""
    /\ file = NoFile
    /\ deser = "none"

\* the value of the decimal digit c, -1 for any other character
DigitOf(c) ==
    CASE c = "0" -> 0 [] c = "1" -> 1 [] c = "2" -> 2 [] c = "3" -> 3
      [] c = "4" -> 4 [] c = "5" -> 5 [] c = "6" -> 6 [] c = "7" -> 7
      [] c = "8" -> 8 [] c = "9" -> 9 [] OTHER -> -1

RECURSIVE to_u64(_)
\* Scalar::to_u64 on a run of digits: its value, -1 for the empty run
to_u64(span) ==
    IF span = "" THEN -1
    ELSE IF Len(span) = 1 THEN DigitOf(span)
    ELSE to_u64(SubSeq(span, 1, Len(span) - 1)) * 10
            + DigitOf(SubSeq(span, Len(span), Len(span)))

Ck3DateNewAnyDay(year, month, day) ==
    IF year # 0 /\ month # 0 /\ day # 0 /\ month <= 12 /\ day <= 31
    THEN [year |-> year, month |-> month, day |-> day]
    ELSE NoDate

\* Ck3Date::new, None being NoDate
Ck3DateNew(year, month, day) ==
    IF year # 0 /\ month # 0 /\ day # 0 /\ month <= 12
          /\ day <= DAYS_PER_MONTH[month]
    THEN [year |-> year, month |-> month, day |-> day]
    ELSE NoDate

RECURSIVE ScanDate(_, _, _, _)
\* the loop of parse_from_str from position pos on: the spans found so
\* far and where the current one starts; <<>> when the loop returns None
ScanDate(data, pos, spans, start) ==
    IF pos > Len(data)
    THEN Append(spans, SubSeq(data, start, Len(data)))
    ELSE LET c == SubSeq(data, pos, pos)
         IN  IF c = "."
             THEN IF Len(spans) >= 2 THEN <<>>
                  ELSE ScanDate(data, pos + 1,
                                Append(spans, SubSeq(data, start, pos - 1)),
                                pos + 1)
             ELSE IF DigitOf(c) = -1 THEN <<>>
             ELSE ScanDate(data, pos + 1, spans, start)

\* Ck3Date::parse_from_str; a first character above '9' returns None at
\* once (of the characters below '0' the texts hold ".", "-" and "/");
\* the spans a dot never closed stay empty, and the casts `as u16` and
\* `as u8` keep the low bits
parse_from_str(s) ==
    IF s = "" \/ (DigitOf(SubSeq(s, 1, 1)) = -1
                    /\ SubSeq(s, 1, 1) \notin {".", "-", "/"})
    THEN NoDate
    ELSE LET spans == ScanDate(s, 1, <<>>, 1)
         IN  IF spans = <<>> THEN NoDate
             ELSE LET span1 == IF Len(spans) >= 2 THEN spans[1] ELSE ""
                      span2 == IF Len(spans) = 3 THEN spans[2] ELSE ""
                      span3 == spans[Len(spans)]
                  IN  IF to_u64(span1) = -1 \/ to_u64(span2) = -1
                            \/ to_u64(span3) = -1
                      THEN NoDate
                      ELSE Ck3DateNew(to_u64(span1) % 65536,
                                      to_u64(span2) % 256,
                                      to_u64(span3) % 256)

\* Ck3Date::ck3_fmt
ck3_fmt(d) ==
    ToString(d.year) \o "." \o ToString(d.month) \o "." \o ToString(d.day)

\* parse_from_str on s, and ck3_fmt on the date it gives
ParseFormat(s, ymd) ==
    LET d == parse_from_str(s)
    IN  Apply("parse_from_str", <<s, ymd>>,
              [date |-> d, text |-> IF d = NoDate THEN "" ELSE ck3_fmt(d)])

days_november(d) ==
    d.year * 365
      + <<-1, 30, 58, 89, 119, 150, 180, 211, 242, 272, 302, 333>>[d.month]
      + d.day

\* Ck3Date::days
days(d) ==
    d.year * 365
      + <<-1, 30, 58, 89, 119, 150, 180, 211, 242, 272, 303, 333>>[d.month]
      + d.day

days_until_reversed(a, b) == days(a) - days(b)

\* Ck3Date::days_until
days_until(a, b) == days(b) - days(a)

\* a call that did not return
Panicked == [year |-> -1, month |-> 0, day |-> 0]

\* Ck3Date::add_days.  When self.days() + days leaves the range of i32
\* the addition panics in a build with overflow checks and wraps in one
\* without; wraps says which.  A negative day of the year reaches
\* unreachable!() in month_day_from_julian.
add_days(d, k, wraps) ==
    LET over == k > 0 /\ days(d) > 2147483647 - k
        under == k < 0 /\ days(d) < (-2147483647 - 1) - k
        new_days == IF over
                    THEN ((days(d) - 2147483647) - 1) + ((k - 2147483647) - 1)
                    ELSE IF under
                    THEN ((days(d) + 2147483647) + 1) + ((k + 2147483647) + 1)
                    ELSE days(d) + k
        md == month_day_from_julian(TruncRem(new_days, 365))
    IN  IF (over \/ under) /\ ~wraps THEN Panicked
        ELSE IF md = <<0, 0>> THEN Panicked
        ELSE [year |-> TruncDiv(new_days, 365) % 65536,
              month |-> md[1], day |-> md[2]]

\* dates Ck3Date::new accepts
Dates ==
    {Ck3DateNew(y, m, d) : y \in {1, 2, 1436, 65535}, m \in {1, 2, 3, 11, 12},
                          d \in {1, 28, 30, 31}} \ {NoDate}

\* numbers of days to add
DayCounts ==
    {0, 1, -1, 30, -30, 303, 364, 365, -365, -366, 729, -730, 23000000,
     -23920275, -23920276, 2147483647, -2147483647}

\* add_days(k) on d, and add_days(-k) on the date it gives
AddDays(d, k, wraps) ==
    LET e == add_days(d, k, wraps)
    IN  Apply("add_days", <<d, k>>,
              [there |-> e,
               back |-> IF e = Panicked THEN Panicked
                        ELSE add_days(e, -k, wraps)])

\* days_until among a, b and c, and from a to k days behind a
DaysUntil(a, b, c, k) ==
    LET e == add_days(a, k, FALSE)
    IN  Apply("days_until", <<a, b, c, k>>,
              [ab |-> days_until(a, b), ba |-> days_until(b, a),
               bc |-> days_until(b, c), ac |-> days_until(a, c),
               later |-> e,
               ak |-> IF e = Panicked THEN 0 ELSE days_until(a, e)])

\* texts that are no three numbers between two dots
Malformed ==
    {"", "a", "1444.11", "1444.11.11.1", ".1.1", "1444..1", "1444.1.",
     "-1.1.1", "1444.1.1a", ":1.1.1", "1444/1/1", "1444"}

NextCalendar ==
    /\ pc = "idle"
    /\ \/ \E n \in BinaryDates : FromI32(n)
       \/ \E y \in {0, 1, 1444, 65535, 65536, 67000},
             m \in {0, 1, 2, 4, 12, 13, 257},
             d \in {0, 1, 28, 29, 30, 31, 32, 257} :
             ParseFormat(ToString(y) \o "." \o ToString(m) \o "."
                           \o ToString(d), <<y, m, d>>)
       \/ \E s \in Malformed \cup {"01.02.03"} : ParseFormat(s, <<>>)
       \/ \E d \in Dates, k \in DayCounts, wraps \in BOOLEAN :
             AddDays(d, k, wraps)
       \/ \E a, b, c \in {d \in Dates : d.year \in {1, 65535}
                                        /\ d.month \in {2, 12}
                                        /\ d.day \in {1, 28}},
             k \in {0, 1, 31, 365, 23000000} : DaysUntil(a, b, c, k)

SpecCalendar == InitCalendar /\ [][NextCalendar]_vars

RECURSIVE DaysBefore(_)
\* the days of a non-leap year in front of month m
DaysBefore(m) == IF m = 1 THEN 0 ELSE DaysBefore(m - 1) + DAYS_PER_MONTH[m - 1]

\* the function f was applied
Applied(f) == pc = "done" /\ input[1] = f

-----------------------------------------------------------------------------
(* Float re-encoding as a pure function (src/src/flavor.rs): the raw i64   *)
(* decoded by Ck3Flavor10::visit_f64 and handed to reencode_float.  The    *)
(* result is a number of hundred-thousandths, kept as sign, integer part   *)
(* and five decimals so that it fits for every raw of 32 bits.             *)

\* the magnitudes, among the raws drawn, at which IEEE 754 binary64 gives
\* (r / 1000.0) * 1000.0 / 32768.0 * 100000.0 more than f32::EPSILON below
\* the integer r * 3125 / 1024
NoisyRaws ==
    {1048579072, 1048580096, 1048608768, 2132122624, 2147482624}

\* the raws drawn: those of the tests, small ones, multiples of 1024 and
\* large ones
ReencodeRaws ==
    {8232960, 49414, -11468800, 4359585, 0, 1, -1, 1048576000, 2147483647,
     -2147483647}
      \cup NoisyRaws \cup {-r : r \in NoisyRaws}
      \cup {k * 1000 + 7 : k \in -40..40}
      \cup {1024 * k : k \in -20..20}

reencode_rounded(raw) ==
    LET a == Abs(raw)
        low == 3125 * ((a \div 1024) % 32) + (3125 * (a % 1024) + 512) \div 1024
    IN  [neg |-> raw < 0 /\ (a \div 32768 > 0 \/ low > 0),
         int |-> a \div 32768 + low \div 100000, frac |-> low % 100000]

\* reencode_float(Ck3Flavor10::visit_f64(raw)): trunc() of
\* raw / 32768 * 100000 plus the epsilon, which is raw * 3125 / 1024
\* truncated toward zero, or one less in magnitude where the noise of the
\* doubles exceeds the epsilon
reencode(raw) ==
    LET a == Abs(raw)
        low == 3125 * ((a \div 1024) % 32) + (3125 * (a % 1024)) \div 1024
        num == IF a \in NoisyRaws
               THEN (IF low = 0 THEN <<a \div 32768 - 1, 99999>>
                     ELSE <<a \div 32768, low - 1>>)
               ELSE <<a \div 32768, low>>
    IN  [neg |-> raw < 0 /\ (num[1] > 0 \/ num[2] > 0),
         int |-> num[1], frac |-> num[2]]

\* visit_f64 and reencode_float on raw
Reencode(raw) == Apply("reencode_float", <<raw>>, reencode(raw))

NextReencode ==
    \E raw \in ReencodeRaws : Reencode(raw)

SpecReencode == InitCalendar /\ [][NextReencode]_vars

-----------------------------------------------------------------------------
(* The order of melt's writes: the buffered metadata pass, the header, the *)
(* body.  Checked on SpecResolve, where a melt can fail in the leading     *)
(* tokens, in the metadata section and in the body.                        *)

\* the tokens melt read itself, those consumed by read() and
\* skip_container() left out
ReadTokens ==
    LET own == SelectSeq(input, LAMBDA x : x.via # "skip")
    IN  [i \in 1..Len(own) |-> own[i].t]

\* the index in ReadTokens of the Close that ends the metadata section, 0
\* when the melt never read it
MetaClosedAt == EndOfContainer(ReadTokens, 7, 1)

\* the text melt writes for a token outside a skipped key
TokenText(t) ==
    CASE t.k = "Open" -> "{"
      [] t.k = "Close" -> "}"
      [] t.k = "Equal" -> "="
      [] t.k = "Id" -> IF Resolve(t.v) # None THEN Resolve(t.v)
                       ELSE "__unknown_0x" \o Hex(t.v)
      [] t.k = "I32" -> ToString(t.v)
      [] OTHER -> t.s

\* the text of the tokens of input in source order, without the skipped
\* keys and their values
SourceText ==
    LET marked == [i \in 1..Len(input) |->
                      [t |-> input[i].t,
                       kept |-> /\ input[i].via # "skip"
                                /\ ~(i < Len(input) /\ input[i + 1].via = "skip")]]
        kept == SelectSeq(marked, LAMBDA x : x.kept)
    IN  [i \in 1..Len(kept) |-> TokenText(kept[i].t)]

\* the melted text behind the header without its white space
WrittenText ==
    LET sig == SelectSeq(MeltedText, IsText)
    IN  [i \in 1..Len(sig) |-> IF IsClose(sig[i]) THEN "}" ELSE sig[i]]

\* C28: nothing is written to the output while melt reads the leading
\* tokens and the metadata section, nor when it fails there; the first
\* write is the 24-byte header of kind Text whose metadata_len is the
\* length of the buffer, followed by the buffered metadata and its newline
\* (the metadata pass ended at the Close of the section or with the input);
\* what follows is the body in the order of the tokens, and what was written
\* is never changed.
C28_WriteOrder ==
    /\ [](/\ pc \in {"lead", "meta"} => output = <<>>
          /\ (pc = "err" /\ (lead < 6 \/ MetaClosedAt = 0)) => output = <<>>
          /\ output # <<>> =>
                /\ MetaClosedAt > 0 \/ pc = "done"
                /\ output[1] = HeaderChunk(header)
                /\ header.kind = "Text"
                /\ header.metadata_len = SumLen(header_sink)
                /\ Len(output) > Len(header_sink)
                /\ TextOf(SubSeq(output, 2, Len(header_sink) + 1)) = header_sink
                /\ header_sink[Len(header_sink)] = "\n"
                /\ \A i \in 1..(Len(header_sink) - 1) : header_sink[i] # "\n"
                /\ error = "" => WrittenText = SourceText)
    /\ [][/\ Len(output') >= Len(output)
          /\ SubSeq(output', 1, Len(output)) = output]_vars

\* a finished melt that skipped a key in the metadata section and wrote a
\* container of the body behind it
C28_Witness ==
    /\ pc = "done"
    /\ MetaClosedAt > 7
    /\ Len(ReadTokens) > MetaClosedAt + 1
    /\ Len(input) > Len(ReadTokens)
    /\ Len(output) > Len(header_sink) + 2
    /\ \E i \in (Len(header_sink) + 2)..Len(output) : output[i].s = "{"
    /\ WrittenText = SourceText


-----------------------------------------------------------------------------
(* The two stacks of inner_melt: Quoter.depth and Blocks.data, and the     *)
(* life of a queued kind.  Checked on SpecQuote.                           *)

\* the position of the first token of the running pass: behind the leading
\* tokens, or behind the Close that ended the metadata section
PassStart ==
    LET c == EndOfContainer(Tokens, 7, 1)
    IN  IF pc = "body" /\ c > 0 THEN c + 1 ELSE 7

\* Open minus Close among the tokens of the running pass
OpenHeight ==
    Cardinality({i \in PassStart..Len(input) : Tokens[i].k = "Open"})
        - Cardinality({i \in PassStart..Len(input) : Tokens[i].k = "Close"})

RECURSIVE QueuedFrom(_)
\* the kind the Quoter holds queued behind Tokens[p], read off the tokens:
\* an identifier the loop writes sets it, an Open or a Quoted scalar takes
\* it, the start of a pass finds none, every other token leaves it
QueuedFrom(p) ==
    IF p < PassStart THEN "None"
    ELSE IF Tokens[p].k \in {"Open", "Quoted"} THEN "None"
    ELSE IF /\ Tokens[p].k = "Id"
            /\ input[p].via = "next"
            /\ Resolve(Tokens[p].v) # None
            /\ ~(p < Len(input) /\ input[p + 1].via = "skip")
    THEN QueueQuote(Resolve(Tokens[p].v), BlocksNew)
    ELSE QueuedFrom(p - 1)

\* the last token the loop handled
LastToken(in) == in[Len(in)].t

\* C29 (amended): both stacks are pushed once by every Open the loop reads
\* and popped once by every Close that ends such a container, so they have
\* the same height, the number of containers the running pass has open; the
\* Open pushes UnquoteAll exactly when UnquoteAll is queued and Inactive
\* otherwise, and empties both queues; a Quoted scalar empties the Quoter's
\* queue; Equal and Close leave a queued kind in place, so it reaches the
\* next Open or Quoted scalar even when that one is a later sibling.
C29_Stacks ==
    /\ [](pc \in {"meta", "body"} =>
            /\ Len(st.quoter.depth) = Len(st.block.data)
            /\ Len(st.quoter.depth) = OpenHeight
            /\ Len(st.quoter.depth) =
                  WtrDepth(wtr) - (IF pc = "meta" THEN 1 ELSE 0)
            /\ \A i \in 1..Len(st.quoter.depth) :
                  st.quoter.depth[i] \in {"Inactive", "UnquoteAll"}
            /\ st.quoter.queued = QueuedFrom(Len(input))
            /\ \A j \in PassStart..Len(input) :
                  DirectlyIn(j, Len(input) + 1) =>
                     ((QuoterTop(st.quoter) = "UnquoteAll")
                        = (QueuedFrom(j - 1) = "UnquoteAll")))
    /\ [][(pc \in {"meta", "body"} /\ pc' = pc /\ Len(input') = Len(input) + 1)
          => LET t == LastToken(input')
                 q == st.quoter
                 b == st.block
             IN  CASE t.k = "Open" ->
                        /\ st'.quoter.depth =
                              Append(q.depth, IF q.queued = "UnquoteAll"
                                              THEN "UnquoteAll" ELSE "Inactive")
                        /\ st'.block.data =
                              Append(b.data, IF b.queued = "None"
                                             THEN "Inactive" ELSE b.queued)
                        /\ st'.quoter.queued = "None"
                        /\ st'.block.queued = "None"
                    [] t.k = "Close" ->
                        /\ q.depth = Append(st'.quoter.depth, QuoterTop(q))
                        /\ Len(st'.block.data) = Len(b.data) - 1
                        /\ st'.quoter.queued = q.queued
                    [] t.k = "Quoted" ->
                        /\ st'.quoter.depth = q.depth
                        /\ st'.block.data = b.data
                        /\ st'.quoter.queued = "None"
                    [] t.k = "Equal" ->
                        /\ st'.quoter = q
                        /\ st'.block = b
                    [] OTHER ->
                        /\ st'.quoter.depth = q.depth
                        /\ st'.block.data = b.data]_vars

\* settings, then the Close of the enclosing container, then an Open: the
\* sibling container has taken the UnquoteAll that settings queued
C29_Witness ==
    /\ pc \in {"meta", "body"}
    /\ Len(input) > 9
    /\ Tokens[Len(input)].k = "Open"
    /\ Tokens[Len(input) - 1].k = "Close"
    /\ Tokens[Len(input) - 2].k = "Id"
    /\ Resolve(Tokens[Len(input) - 2].v) = "settings"
    /\ QuoterTop(st.quoter) = "UnquoteAll"
    /\ Len(st.quoter.depth) = Len(st.block.data)

\* C29 as stated: the stacks have the height of the open containers, and
\* a container is UnquoteAll if and only if it is the value of a key that
\* queues UnquoteAll.
C29_OnlyValueOfKey ==
    pc \in {"meta", "body"} =>
        /\ Len(st.quoter.depth) = Len(st.block.data)
        /\ Len(st.quoter.depth) = OpenHeight
        /\ \A j \in PassStart..Len(input) :
              DirectlyIn(j, Len(input) + 1) =>
                 ((QuoterTop(st.quoter) = "UnquoteAll")
                    = FollowsId(j, UnquoteAllNames))


-----------------------------------------------------------------------------
(* Ck3File::meta on an uncompressed save, with the width of usize: the     *)
(* length field of the header is eight hex digits, `len * 2` is computed   *)
(* in usize.  A 32-bit value is held as two 16-bit halves.                 *)

Word(hi, lo) == [hi |-> hi, lo |-> lo]

\* the metadata lengths a header can carry, up to ffffffff
MetadataLens ==
    {Word(0, 2), Word(0, 4), Word(0, 5), Word(0, 12), Word(1, 0),
     Word(32767, 65535), Word(32768, 0), Word(32768, 3), Word(65535, 65535)}

\* the lengths of the body behind the header
BodyLens == {0, 4, 9, 10}

\* the target and the profile of the build: the bits of usize, and whether
\* arithmetic overflow panics (overflow-checks) or wraps
Builds == [usize_bits : {32, 64}, overflow_checks : BOOLEAN]

\* len * 2 in usize: the product, and whether the multiplication overflowed
usize_mul2(len, build) ==
    LET lo == len.lo * 2
        hi == len.hi * 2 + lo \div 65536
    IN  [overflow |-> build.usize_bits = 32 /\ hi >= 65536,
         val |-> Word(IF build.usize_bits = 32 THEN hi % 65536 ELSE hi,
                      lo % 65536)]

\* a > x for a body length x below 65536
WordGt(a, x) == a.hi > 0 \/ a.lo > x

\* len.min(x.len())
WordMin(a, x) == IF WordGt(a, x) THEN x ELSE a.lo

\* the end of the slice meta() returns for FileKind::Text and
\* FileKind::Binary, or the panic of the multiplication
meta_len(kind, len, x, build) ==
    IF kind = "Text"
    THEN LET twice == usize_mul2(len, build)
         IN  IF twice.overflow /\ build.overflow_checks
             THEN [panic |-> TRUE, to |-> 0]
             ELSE [panic |-> FALSE,
                   to |-> IF WordGt(twice.val, x) THEN x ELSE WordMin(len, x)]
    ELSE [panic |-> FALSE, to |-> IF WordGt(len, x) THEN x ELSE len.lo]

MetaText ==
    /\ file.phase = "file"
    /\ file.kind = "Text"
    /\ file' = [file EXCEPT
                  !.phase = "meta",
                  !.meta = meta_len("Text", file.header.metadata_len,
                                    file.body_len, file.build)]
    /\ UNCHANGED <<meltVars, deser>>

MetaBinary ==
    /\ file.phase = "file"
    /\ file.kind = "Binary"
    /\ file' = [file EXCEPT
                  !.phase = "meta",
                  !.meta = meta_len("Binary", file.header.metadata_len,
                                    file.body_len, file.build)]
    /\ UNCHANGED <<meltVars, deser>>

\* an uncompressed save that from_slice accepted
InitMetaLen ==
    /\ pc = "idle"
    /\ lead = 0
    /\ input = <<>>
    /\ options = DefaultOptions
    /\ version = 0
    /\ flavor = "none"
    /\ wtr = WtrNew
    /\ header_sink = <<>>
    /\ output = <<>>
    /\ header = BinaryHeader
    /\ st = Fresh
    /\ unknown_tokens = {}
    /\ error = ""
    /\ deser = "none"
    /\ \E k \in {"Text", "Binary"}, len \in MetadataLens, x \in BodyLens,
          b \in Builds :
          file = [phase |-> "file", kind |-> k,
                  header |-> [kind |-> k, metadata_len |-> len],
                  body_len |-> x, build |-> b,
                  meta |-> [panic |-> FALSE, to |-> 0]]

NextMetaLen ==
    \/ MetaText
    \/ MetaBinary

SpecMetaLen == InitMetaLen /\ [][NextMetaLen]_vars

\* 2 * len <= x, in the integers
TwiceAtMost(len, x) == len.hi = 0 /\ 2 * len.lo <= x

\* C30: for an uncompressed save meta() returns a prefix of the body for
\* every metadata_len and every body length: for Binary the first
\* metadata_len bytes, or the whole body when metadata_len exceeds the body;
\* for Text the first metadata_len bytes when 2 * metadata_len <= body
\* length and the whole body otherwise.
C30_MetaPrefix ==
    file.phase = "meta" =>
        LET len == file.header.metadata_len
            x == file.body_len
        IN  /\ ~file.meta.panic
            /\ file.meta.to \in 0..x
            /\ file.kind = "Binary" =>
                  file.meta.to = IF WordGt(len, x) THEN x ELSE len.lo
            /\ file.kind = "Text" =>
                  file.meta.to = IF TwiceAtMost(len, x) THEN len.lo ELSE x


-----------------------------------------------------------------------------
(* Blocks.in_alive_data against the Alive entries of the block stack.      *)

\* an Alive block is on the stack of Blocks
AliveOnStack(b) == \E i \in 1..Len(b.data) : b.data[i] = "Alive"

\* C31: in_alive_data is true exactly while a container opened as the value
\* of alive_data is on the block stack, so the rules for gold and perk fire
\* inside alive_data and only there.
C31_InAliveData ==
    pc \in {"meta", "body"} =>
        /\ st.block.in_alive_data = AliveOnStack(st.block)
        /\ ArmReencode("gold", st.block)
              = (AliveOnStack(st.block) /\ float_reencoding(flavor))
        /\ (QueueQuote("perk", st.block) = "UnquoteAll")
              = AliveOnStack(st.block)


-----------------------------------------------------------------------------
(* What a skipped key consumes, and the depths behind it.                  *)

\* Open minus Close among the tokens the melter read itself
OwnDepth ==
    Cardinality({i \in 1..Len(input) :
                    input[i].via # "skip" /\ Tokens[i].k = "Open"})
        - Cardinality({i \in 1..Len(input) :
                    input[i].via # "skip" /\ Tokens[i].k = "Close"})

\* the value among the tokens a skip consumed: what follows the optional
\* Equal
SkippedValue(toks) ==
    IF toks # <<>> /\ toks[1].k = "Equal" THEN Tail(toks) ELSE toks

\* C32: a key skip (ironman keys, an unresolved key under Ignore) consumes
\* the key, an optional Equal and exactly one complete value, never the
\* Close of the enclosing container; the writer depth and the heights of
\* both stacks are those of the tokens that were not skipped.
C32_SkipOneValue ==
    /\ [](pc \in {"meta", "body"} =>
            /\ WtrDepth(wtr) = OwnDepth
            /\ Len(st.quoter.depth) = Len(st.block.data)
            /\ Len(st.quoter.depth) =
                  OwnDepth - (IF pc = "meta" THEN 1 ELSE 0))
    /\ [][(/\ pc \in {"meta", "body"}
           /\ pc' = pc
           /\ Len(input') > Len(input) + 1)
          => /\ IsEqualAndValue(SkippedBy(input, input'))
             /\ SkippedValue(SkippedBy(input, input'))[1].k
                   \notin {"Close", "Equal"}
             /\ wtr' = wtr
             /\ st' = st]_vars


-----------------------------------------------------------------------------
(* The end of the input inside a container.                                *)

\* C33 (amended): when the input ends where the loop of inner_melt asks for
\* the next token, melt returns Ok at any depth: inside the metadata
\* section the header is written with the length of the unterminated buffer
\* and its newline, inside a container of the body the text written so far
\* stands.  A melt fails at the end of the input only among the leading
\* tokens (InvalidHeader) and inside a key skip (parse error).
C33_EndOfInput ==
    /\ [](/\ pc = "done" =>
                /\ error = ""
                /\ output # <<>>
                /\ output[1].kind = "Text"
                /\ output[1].len = SumLen(header_sink)
                /\ header_sink[Len(header_sink)] = "\n"
          /\ (pc = "err" /\ error = "InvalidHeader") => lead < 6
          /\ (pc = "err" /\ error = "Parse" /\ input[Len(input)].via = "next")
                => \/ Tokens[Len(input)].k = "Close"
                   \/ Tokens[Len(input)].k = "Id")
    /\ [][(pc \in {"meta", "body"} /\ input' = input /\ pc' # pc)
            => /\ pc' = "done"
               /\ error' = ""
               /\ pc = "meta" =>
                     /\ MetaClosedAt = 0
                     /\ output = <<>>
                     /\ header_sink' = Append(header_sink, "\n")
               /\ pc = "body" => output' = output]_vars

\* a melt that returned Ok although the input ended inside a container
\* nested in the metadata section
C33_Witness ==
    /\ pc = "done"
    /\ error = ""
    /\ MetaClosedAt = 0
    /\ OwnDepth > 1
    /\ output # <<>>
    /\ output[1].len = SumLen(header_sink)

\* C33 as stated: melt returns Ok only if the metadata section is closed by
\* a matching Close and no container of the body is left open.
C33_OkOnlyIfClosed ==
    pc = "done" => MetaClosedAt > 0 /\ OwnDepth = 0


-----------------------------------------------------------------------------
(* Ck3Melter::melt by input: Text is copied behind its header, Binary and  *)
(* Zip go through melt() and its token reader.                             *)

\* the melters Ck3File::melter builds, with the header kind of each
MelterInputs ==
    {[input |-> "Text", is_text |-> TRUE, hdr |-> "Text"],
     [input |-> "Binary", is_text |-> FALSE, hdr |-> "Binary"],
     [input |-> "Zip", is_text |-> TRUE, hdr |-> "CompressedText"],
     [input |-> "Zip", is_text |-> FALSE, hdr |-> "CompressedBinary"]}

\* a textual gamestate
GamestateText == <<"meta_data={\n\tsave_game_version=6\n}\n", "seed=1\n">>

\* what the token reader makes of text: the bytes "me" are the 16-bit
\* lexeme 0x656d, an identifier
TextAsTokens == {IdTok(101 * 256 + 109)}

\* MeltInput::Text: the header and the bytes as they are
MelterMeltText ==
    /\ pc = "idle"
    /\ file.input = "Text"
    /\ output' = <<HeaderChunk(header)>> \o TextChunks(GamestateText)
    /\ pc' = "done"
    /\ UNCHANGED <<lead, input, options, version, flavor, wtr, header_sink,
                   header, st, unknown_tokens, error, file, deser>>

\* MeltInput::Binary and MeltInput::Zip: melt() on the bytes or on the
\* inflated gamestate
MelterMeltTokens ==
    /\ pc = "idle"
    /\ file.input \in {"Binary", "Zip"}
    /\ pc' = "lead"
    /\ UNCHANGED <<lead, input, options, version, flavor, wtr, header_sink,
                   output, header, st, unknown_tokens, error, file, deser>>

InitMelter ==
    /\ pc = "idle"
    /\ lead = 0
    /\ input = <<>>
    /\ options \in {[verbatim |-> FALSE, on_failed_resolve |-> s] :
                        s \in {"Ignore", "Stringify"}}
    /\ version = 0
    /\ flavor = "none"
    /\ wtr = WtrNew
    /\ header_sink = <<>>
    /\ output = <<>>
    /\ st = Fresh
    /\ unknown_tokens = {}
    /\ error = ""
    /\ deser = "none"
    /\ \E k \in MelterInputs :
          /\ file = [phase |-> "melter", input |-> k.input,
                     is_text |-> k.is_text]
          /\ header = [kind |-> k.hdr, metadata_len |-> 0]

NextMelter ==
    \/ MelterMeltText
    \/ MelterMeltTokens
    \/ \E t \in (IF file.is_text THEN TextAsTokens
                 ELSE LeadDraw({10}, {1423}, {6})) : MeltLead(t)
    \/ HandleOpen
    \/ HandleClose
    \/ HandleId(9001, {})
    \/ MeltEof

SpecMelter == InitMelter /\ [][NextMelter]_vars

\* C34: melting a text save, plain or zipped, reads no token and consults
\* no resolver: the result is the header followed by the text, and
\* unknown_tokens is empty.
C34_TextNotTokenized ==
    file.is_text =>
        /\ pc \in {"idle", "done"}
        /\ input = <<>>
        /\ error = ""
        /\ unknown_tokens = {}
        /\ pc = "done" =>
              output = <<HeaderChunk(header)>> \o TextChunks(GamestateText)


-----------------------------------------------------------------------------
(* The bytes the three from_slice entry points hand on: Ck3File::from_slice *)
(* to the zip reader, Ck3Text::from_slice and Ck3Binary::from_slice to the *)
(* tape parsers.                                                           *)

\* inputs by size and by what SaveHeader::from_slice makes of the first
\* bytes
SliceInputs ==
    {[size |-> n, hdr |-> h, metadata_len |-> 0] :
        n \in 20..40, h \in {"bad", "Text", "Binary"}}

\* the range of data an entry point passes on, or InvalidHeader
Sliced(api, in, from, to) ==
    IF SaveHeaderFromSlice(in).ok
    THEN [phase |-> "sliced", api |-> api, input |-> in, error |-> "",
          range |-> [from |-> from, to |-> to]]
    ELSE [phase |-> "sliced", api |-> api, input |-> in,
          error |-> "InvalidHeader", range |-> NoRange]

\* Ck3File::from_slice: &data[header.header_len()..]
FileFromSlice ==
    /\ file.phase = "input"
    /\ file' = Sliced("Ck3File", file.input, HEADER_LEN, file.input.size)
    /\ UNCHANGED <<meltVars, deser>>

\* Ck3Text::from_slice: from_raw(&data[..header.header_len()])
TextFromSlice ==
    /\ file.phase = "input"
    /\ file' = Sliced("Ck3Text", file.input, 0, HEADER_LEN)
    /\ UNCHANGED <<meltVars, deser>>

\* Ck3Binary::from_slice: from_raw(&data[..header.header_len()], header)
BinaryFromSlice ==
    /\ file.phase = "input"
    /\ file' = Sliced("Ck3Binary", file.input, 0, HEADER_LEN)
    /\ UNCHANGED <<meltVars, deser>>

InitSlices ==
    /\ pc = "idle"
    /\ lead = 0
    /\ input = <<>>
    /\ options = DefaultOptions
    /\ version = 0
    /\ flavor = "none"
    /\ wtr = WtrNew
    /\ header_sink = <<>>
    /\ output = <<>>
    /\ header = BinaryHeader
    /\ st = Fresh
    /\ unknown_tokens = {}
    /\ error = ""
    /\ deser = "none"
    /\ \E in \in SliceInputs : file = [phase |-> "input", input |-> in]

NextSlices ==
    \/ FileFromSlice
    \/ TextFromSlice
    \/ BinaryFromSlice

SpecSlices == InitSlices /\ [][NextSlices]_vars

\* C35: Ck3Text::from_slice and Ck3Binary::from_slice parse the bytes from
\* header_len to the end of the input, the range Ck3File::from_slice takes
\* as the body, and never the header bytes.
C35_BodyRange ==
    (file.phase = "sliced" /\ file.error = "") =>
        /\ file.range.from = HEADER_LEN
        /\ file.range.to = file.input.size


-----------------------------------------------------------------------------
(* The dates the functions of Ck3Date hand out.                            *)

\* a date of the calendar: a year from 1 on and a day that its month has
ValidDate(d) ==
    /\ d.year \in 1..65535
    /\ d.month \in 1..12
    /\ d.day \in 1..DAYS_PER_MONTH[d.month]

\* C36: every date that from_i32, parse_from_str and add_days return has a
\* year from 1 on, a month from 1 to 12 and a day of that month; the
\* narrowing of year, month and day changes no value, and no call ends in
\* unreachable!().
C36_ValidDates ==
    /\ Applied("from_i32") =>
          \/ output[1] = NoDate
          \/ /\ ValidDate(output[1])
             /\ output[1].year = TruncDiv(TruncDiv(input[2], 24), 365) - 5000
    /\ Applied("parse_from_str") =>
          \/ output[1].date = NoDate
          \/ /\ ValidDate(output[1].date)
             /\ input[3] # <<>> =>
                   input[3] = <<output[1].date.year, output[1].date.month,
                                output[1].date.day>>
    /\ Applied("add_days") =>
          /\ output[1].there # Panicked
          /\ ValidDate(output[1].there)


\* ---------------------------------------------------------------------
\* Ck3File::parse on a zip save with the zip_sink the caller supplies
\* ---------------------------------------------------------------------

\* the contents the caller's zip_sink may hold when parse is called
SinkContents == {<<>>} \cup ByteStrings(MaxData)

\* Ck3ZipFile::read_to_end(buf): the buffer grows by size() bytes behind
\* what it holds and the member is inflated into the new bytes
read_to_end(m, buf) ==
    LET r == inflate_exact(m.raw, m.size)
    IN  [error |-> r.error,
         buf |-> IF r.error = "" THEN buf \o r.data
                 ELSE buf \o [i \in 1..m.size |-> 0]]

\* Ck3File::parse, the FileKind::Zip arm: the member is inflated into
\* zip_sink and the parser is given zip_sink
ParseZipFile ==
    /\ file.phase = "member"
    /\ LET r == read_to_end(file.member, file.sink)
       IN  file' = [file EXCEPT
                      !.phase = IF r.error = "" THEN "parsed" ELSE "error",
                      !.sink = r.buf,
                      !.error = r.error,
                      !.kind = IF r.error # "" THEN "none"
                               ELSE IF file.is_text THEN "Text" ELSE "Binary",
                      !.parsed = IF r.error = "" THEN r.buf ELSE <<>>]
    /\ UNCHANGED <<meltVars, deser>>

InitParseZip ==
    /\ pc = "idle"
    /\ lead = 0
    /\ input = <<>>
    /\ options = DefaultOptions
    /\ version = 0
    /\ flavor = "none"
    /\ wtr = WtrNew
    /\ header_sink = <<>>
    /\ output = <<>>
    /\ header = BinaryHeader
    /\ st = Fresh
    /\ unknown_tokens = {}
    /\ error = ""
    /\ deser = "none"
    /\ \E m \in ZipMembers, s \in SinkContents, t \in BOOLEAN :
          file = [phase |-> "member", member |-> m, sink |-> s,
                  is_text |-> t, kind |-> "none", parsed |-> <<>>,
                  error |-> ""]

NextParseZip == ParseZipFile

SpecParseZip == InitParseZip /\ [][NextParseZip]_vars

\* C37: Ck3File::parse on a zip save parses exactly the inflated bytes of
\* the gamestate member, whatever the zip_sink of the caller held before
C37_ParsesGamestate ==
    file.phase = "parsed" =>
        file.parsed = inflate_exact(file.member.raw, file.member.size).data


-----------------------------------------------------------------------------
(* Deserialization of alive_data.gold (src/src/models/gamestate.rs): the   *)
(* value the deserializer of a text or of a binary body yields for the     *)
(* field, through deserialize_eu4_float.                                   *)

\* the raw i64 of the f64 tokens drawn for a binary body
DeserRaws ==
    {0, 44, 4647, 4359585, 8232960, 49414, -11468800, 13304397, 25125000}
      \cup {1024 * k : k \in 1..8}

\* the gold values drawn for a text body: 0, 0.044, 4.647, 133.04397,
\* 251.25, -350 and 7.5
TextGolds ==
    {[num |-> 0, scale |-> 3], [num |-> 44, scale |-> 3],
     [num |-> 4647, scale |-> 3], [num |-> 13304397, scale |-> 5],
     [num |-> 25125000, scale |-> 5], [num |-> -350000, scale |-> 3],
     [num |-> 750000, scale |-> 5]}

\* a and b are the same number
SameValue(a, b) ==
    a.num * Pow10(5 - a.scale) = b.num * Pow10(5 - b.scale)

\* deserialize_eu4_float: the optional f64 the deserializer yields, mapped
\* through reencode_float
deserialize_eu4_float(val) == reencode_float(val)

\* AliveData.gold of a text body: Ck3Text::deserializer and the
\* deserialize_with of the field
DeserializeTextGold ==
    /\ deser.phase = "parsed"
    /\ deser.kind = "Text"
    /\ deser' = [deser EXCEPT
                   !.phase = "done",
                   !.decoded = deser.text,
                   !.gold = deserialize_eu4_float(deser.text)]
    /\ UNCHANGED <<meltVars, file>>

\* AliveData.gold of a binary body: Ck3Binary::deserializer decodes the
\* f64 with the flavor of the tape, then the deserialize_with of the field
DeserializeBinaryGold ==
    /\ deser.phase = "parsed"
    /\ deser.kind = "Binary"
    /\ LET fl == flavor_from_tape(1423, deser.version)
           f == visit_f64(fl, deser.raw)
       IN  deser' = [deser EXCEPT
                       !.phase = "done",
                       !.flavor = fl,
                       !.decoded = f,
                       !.gold = deserialize_eu4_float(f)]
    /\ UNCHANGED <<meltVars, file>>

InitDeserGold ==
    /\ pc = "idle"
    /\ lead = 0
    /\ input = <<>>
    /\ options = DefaultOptions
    /\ version = 0
    /\ flavor = "none"
    /\ wtr = WtrNew
    /\ header_sink = <<>>
    /\ output = <<>>
    /\ header = BinaryHeader
    /\ st = Fresh
    /\ unknown_tokens = {}
    /\ error = ""
    /\ file = NoFile
    /\ \E k \in {"Text", "Binary"}, v \in Versions, raw \in DeserRaws,
          t \in TextGolds :
          deser = [phase |-> "parsed", kind |-> k, version |-> v,
                   raw |-> IF k = "Binary" THEN raw ELSE 0,
                   text |-> IF k = "Text" THEN t
                            ELSE [num |-> 0, scale |-> 3],
                   flavor |-> "none",
                   decoded |-> [num |-> 0, scale |-> 3],
                   gold |-> [num |-> 0, scale |-> 3]]

NextDeserGold ==
    \/ DeserializeTextGold
    \/ DeserializeBinaryGold

SpecDeserGold == InitDeserGold /\ [][NextDeserGold]_vars

\* C38: the deserialized alive_data.gold is the re-encoded value only for
\* a binary save of version <= 5; for a binary save of version >= 6 and
\* for a text save, melted output included, it is the decoded or parsed
\* value unchanged
C38_GoldReencodedByFlavor ==
    deser.phase = "done" =>
        IF deser.kind = "Binary" /\ deser.version <= 5
        THEN deser.gold = reencode_float(deser.decoded)
        ELSE SameValue(deser.gold, deser.decoded)

====
